---- MODULE Spec2Model ----
(***************************************************************************)
(* Model of the terraform-runner service: the credential manager           *)
(* (AWSCredentialManager), the deploy pipeline (deploy_terraform), the     *)
(* destroy pipeline with pre-cleanup and retry                             *)
(* (destroy_terraform_with_cleanup) and the request handlers of main.py.   *)
(*                                                                         *)
(* Text is modelled as a sequence of tokens: a subprocess's stderr, a      *)
(* cleanup-log entry, an identifier.  An f-string is the concatenation of  *)
(* its parts, and  "x" in s  is token membership.                          *)
(***************************************************************************)
EXTENDS Integers, Sequences, FiniteSets, TLC

(***************************************************************************)
(* Bounds of the model.                                                    *)
(***************************************************************************)
TickSeconds == 1500     \* how far one clock step advances time.time()
MaxTicks == 2           \* clock steps explored
MaxExchanges == 2       \* assume_role calls explored
MaxFaults == 2          \* failing outside calls explored per request (Spec)
ConcFaults == 1         \* failing outside calls explored per request (SpecConc)

(***************************************************************************)
(* Program constants.                                                      *)
(***************************************************************************)
None == -1                      \* Python None / an unset environment variable
DurationSeconds == 3600         \* DurationSeconds=3600
SafetyMarginSeconds == 600      \* 10 * 60

(***************************************************************************)
(* Identifiers.  A missing identifier (None or '') is the empty sequence:  *)
(* both are falsy for  `not user_id`.                                      *)
(***************************************************************************)
Missing == << >>
UserIds == {Missing, <<"a">>, <<"a", "-", "b">>}
ProjectIds == {<<"c">>, <<"b", "-", "c">>}
DevUser == <<"dev", "-", "user">>
DevProject == <<"dev", "-", "project">>

Truthy(s) == Len(s) > 0

(***************************************************************************)
(* Environment variables of one process (os.environ).  A credential value  *)
(* is an integer: 0 is the operator's long-lived value, n >= 1 the value   *)
(* issued by the n-th role-assumption exchange, None is unset.             *)
(***************************************************************************)
IsSet(v) == v # None

has_direct_credentials(env) ==
    IsSet(env.AWS_ACCESS_KEY_ID) /\ IsSet(env.AWS_SECRET_ACCESS_KEY)

has_role_config_ArnOnly(env) == IsSet(env.AWS_ROLE_ARN)

has_role_config(env) ==
    IsSet(env.AWS_ROLE_ARN) /\ IsSet(env.AWS_EXTERNAL_ID)

DirectCredentials(env) ==
    [aws_access_key_id |-> env.AWS_ACCESS_KEY_ID,
     aws_secret_access_key |-> env.AWS_SECRET_ACCESS_KEY,
     aws_session_token |-> env.AWS_SESSION_TOKEN]

NoCredentials ==
    [aws_access_key_id |-> None,
     aws_secret_access_key |-> None,
     aws_session_token |-> None]

\* The credential set built from the n-th assume_role response.
IssuedCredentials(n) ==
    [aws_access_key_id |-> n,
     aws_secret_access_key |-> n,
     aws_session_token |-> n]

(***************************************************************************)
(* The credential cache: a dictionary from cache key to                    *)
(* [credentials, expiration].                                              *)
(***************************************************************************)
EmptyCache == [k \in {} |-> 0]

CachePut(cache, key, entry) ==
    [k \in DOMAIN cache \cup {key} |-> IF k = key THEN entry ELSE cache[k]]

CacheDel(cache, key) ==
    [k \in DOMAIN cache \ {key} |-> cache[k]]

\* cache_key = f"{user_id}-{project_id}"
CacheKey(user_id, project_id) == user_id \o <<"-">> \o project_id

CacheFresh_Never(entry, t) == FALSE

\* cached['expiration'] > time.time()
CacheFresh(entry, t) == entry.expiration > t

ExpirationTime_NoMargin(stsExpiration) == stsExpiration

\* expiration_time = response['Credentials']['Expiration'].timestamp() - (10 * 60)
ExpirationTime(stsExpiration) == stsExpiration - SafetyMarginSeconds

(***************************************************************************)
(* get_credentials_for_user.  sts is the outcome of the assume_role call   *)
(* should it be made ("ok" or "fail"); n is the number of assume_role      *)
(* calls made so far; t is time.time().  The result records what the call  *)
(* returned or raised, the cache it leaves, and what it did.               *)
(***************************************************************************)
CredResult(ok, creds, err, cache, calls, key, hit, evicted, touched) ==
    [ok |-> ok, credentials |-> creds, error |-> err, cache |-> cache,
     exchanges |-> calls, key |-> key, hit |-> hit, evicted |-> evicted,
     touched |-> touched]

get_credentials_for_user(env, cache, user_id, project_id, t, sts, n) ==
    LET cache_key == CacheKey(user_id, project_id)
        present == cache_key \in DOMAIN cache
    IN  IF present /\ CacheFresh(cache[cache_key], t)
        THEN CredResult(TRUE, cache[cache_key].credentials, "none", cache,
                        0, cache_key, TRUE, FALSE, TRUE)
        ELSE LET c1 == IF present THEN CacheDel(cache, cache_key) ELSE cache
             IN  IF ~IsSet(env.AWS_ROLE_ARN) \/ ~IsSet(env.AWS_EXTERNAL_ID)
                 THEN CredResult(FALSE, NoCredentials, "DelegationError", c1,
                                 0, cache_key, FALSE, present, TRUE)
                 ELSE IF sts = "ok"
                 THEN CredResult(TRUE, IssuedCredentials(n + 1), "none",
                          CachePut(c1, cache_key,
                              [credentials |-> IssuedCredentials(n + 1),
                               expiration |->
                                   ExpirationTime(t + DurationSeconds)]),
                          1, cache_key, FALSE, present, TRUE)
                 ELSE CredResult(FALSE, NoCredentials, "DelegationError", c1,
                                 1, cache_key, FALSE, present, TRUE)

(***************************************************************************)
(* get_credentials: the branches in the order of the code.                 *)
(***************************************************************************)
IsProduction_Never(env) == FALSE

IsProduction(env) == env.NODE_ENV = "production"

get_credentials(env, cache, user_id, project_id, t, sts, n) ==
    IF has_direct_credentials(env) /\ ~has_role_config(env)
    THEN CredResult(TRUE, DirectCredentials(env), "none", cache,
                    0, Missing, FALSE, FALSE, FALSE)
    ELSE IF has_role_config(env)
    THEN IF ~Truthy(user_id) \/ ~Truthy(project_id)
         THEN IF IsProduction(env)
              THEN CredResult(FALSE, NoCredentials, "ConfigurationError",
                              cache, 0, Missing, FALSE, FALSE, FALSE)
              ELSE get_credentials_for_user(env, cache, DevUser, DevProject,
                                            t, sts, n)
         ELSE get_credentials_for_user(env, cache, user_id, project_id,
                                       t, sts, n)
    ELSE IF has_direct_credentials(env) /\ has_role_config(env)
    THEN IF IsProduction(env)
         THEN IF ~Truthy(user_id) \/ ~Truthy(project_id)
              THEN CredResult(FALSE, NoCredentials, "ConfigurationError",
                              cache, 0, Missing, FALSE, FALSE, FALSE)
              ELSE get_credentials_for_user(env, cache, user_id, project_id,
                                            t, sts, n)
         ELSE CredResult(TRUE, DirectCredentials(env), "none", cache,
                         0, Missing, FALSE, FALSE, FALSE)
    ELSE CredResult(FALSE, NoCredentials, "ConfigurationError", cache,
                    0, Missing, FALSE, FALSE, FALSE)

(***************************************************************************)
(* The state document (terraform.tfstate) and the inventory extracted      *)
(* from it.  A parsed document is [shape, resources]: shape "list" when    *)
(* 'resources' is a list, "missing" when the document is empty or has no   *)
(* 'resources' field, "null" when the field is null, "scalar" when it is   *)
(* a number.  An instance is its attributes dictionary; an absent          *)
(* attribute and '' are both falsy.                                        *)
(***************************************************************************)
EmptyInventory ==
    [s3_buckets |-> << >>, lambda_functions |-> << >>, api_gateways |-> << >>,
     dynamodb_tables |-> << >>, iam_roles |-> << >>]

\* attributes.get(k)
Attr(attributes, k) == IF k \in DOMAIN attributes THEN attributes[k] ELSE ""

\* d.get(k, default)
Get(d, k, default) == IF k \in DOMAIN d THEN d[k] ELSE default

AddInstance(resources, resource_type, attributes) ==
    IF resource_type = "aws_s3_bucket"
    THEN IF Attr(attributes, "bucket") # ""
         THEN [resources EXCEPT !.s3_buckets = Append(@,
                  [name |-> Attr(attributes, "bucket"),
                   arn |-> Attr(attributes, "arn"),
                   region |-> Attr(attributes, "region")])]
         ELSE resources
    ELSE IF resource_type = "aws_lambda_function"
    THEN IF Attr(attributes, "function_name") # ""
         THEN [resources EXCEPT !.lambda_functions = Append(@,
                  [name |-> Attr(attributes, "function_name"),
                   arn |-> Attr(attributes, "arn"),
                   role |-> Attr(attributes, "role")])]
         ELSE resources
    ELSE IF resource_type \in {"aws_api_gateway_rest_api", "aws_apigatewayv2_api"}
    THEN IF Attr(attributes, "id") # ""
         THEN [resources EXCEPT !.api_gateways = Append(@,
                  [id |-> Attr(attributes, "id"),
                   name |-> Attr(attributes, "name"),
                   type |-> IF resource_type = "aws_api_gateway_rest_api"
                            THEN "v1" ELSE "v2"])]
         ELSE resources
    ELSE IF resource_type = "aws_dynamodb_table"
    THEN IF Attr(attributes, "name") # ""
         THEN [resources EXCEPT !.dynamodb_tables = Append(@,
                  [name |-> Attr(attributes, "name"),
                   arn |-> Attr(attributes, "arn")])]
         ELSE resources
    ELSE IF resource_type = "aws_iam_role"
    THEN IF Attr(attributes, "name") # ""
         THEN [resources EXCEPT !.iam_roles = Append(@,
                  [name |-> Attr(attributes, "name"),
                   arn |-> Attr(attributes, "arn")])]
         ELSE resources
    ELSE resources

AddInstances_FirstOnly(resources, resource_type, instances) ==
    IF Len(instances) = 0
    THEN resources
    ELSE AddInstance(resources, resource_type, Head(instances))

RECURSIVE AddInstances(_, _, _)
AddInstances(resources, resource_type, instances) ==
    IF Len(instances) = 0
    THEN resources
    ELSE AddInstances(AddInstance(resources, resource_type, Head(instances)),
                      resource_type, Tail(instances))

RECURSIVE AddResources(_, _)
AddResources(resources, list) ==
    IF Len(list) = 0
    THEN resources
    ELSE AddResources(
             AddInstances(resources, Get(Head(list), "type", ""),
                          Get(Head(list), "instances", << >>)),
             Tail(list))

\* [raised, resources]: raised when iterating the 'resources' value fails.
extract_resources_from_state(state_data) ==
    IF state_data.shape = "missing"
    THEN [raised |-> FALSE, resources |-> EmptyInventory]
    ELSE IF state_data.shape \in {"null", "scalar"}
    THEN [raised |-> TRUE, resources |-> EmptyInventory]
    ELSE [raised |-> FALSE,
          resources |-> AddResources(EmptyInventory, state_data.resources)]

\* Documents explored.  DocFull lists its function before its buckets.
DocNone == [shape |-> "missing", resources |-> << >>]
DocNull == [shape |-> "null", resources |-> << >>]
DocScalar == [shape |-> "scalar", resources |-> << >>]
DocDestroyed == [shape |-> "list", resources |-> << >>]
DocFull ==
    [shape |-> "list",
     resources |->
        << [type |-> "aws_lambda_function",
            instances |-> << [function_name |-> "f1", arn |-> "arn:f1"] >>],
           [type |-> "aws_s3_bucket",
            instances |-> << [bucket |-> "b1", arn |-> "arn:b1"],
                             [bucket |-> "b2"] >>],
           [type |-> "aws_api_gateway_rest_api",
            instances |-> << [id |-> "g1", name |-> "api"] >>] >>]
DocBucket ==
    [shape |-> "list",
     resources |->
        << [type |-> "aws_s3_bucket",
            instances |-> << [bucket |-> "b1"] >>] >>]

(***************************************************************************)
(* The workspace directory of a project and its state file.                *)
(***************************************************************************)
StateFile(kind, data) == [kind |-> kind, data |-> data]
FileAbsent == StateFile("absent", DocNone)
FileEmpty == StateFile("empty", DocNone)
FileMalformed == StateFile("malformed", DocNone)
FileJson(doc) == StateFile("json", doc)

NoWorkspace == [exists |-> FALSE, state |-> FileAbsent]
Workspace(file) == [exists |-> TRUE, state |-> file]

\* not os.path.exists(state_file) or os.stat(state_file).st_size == 0
NoStateFound(dir) == ~dir.exists \/ dir.state.kind \in {"absent", "empty"}

(***************************************************************************)
(* Cleanup-log entries of the three strategies, for one resource, from     *)
(* the outcomes of its cloud calls.                                        *)
(***************************************************************************)
\* cleanup_s3_buckets, one bucket: head is the outcome of head_bucket, objs
\* of listing and deleting the objects, vers of the versions and markers.
S3BucketLogs(bucket_name, head, objs, vers) ==
    IF head = "NoSuchBucket"
    THEN << <<"Bucket ", bucket_name, ": Already deleted">> >>
    ELSE IF head = "error"
    THEN << <<"Bucket ", bucket_name, ": Access error - ">> >>
    ELSE (IF objs = "deleted"
          THEN << <<"Bucket ", bucket_name, ": Deleted n objects">> >>
          ELSE IF objs = "error"
          THEN << <<"Bucket ", bucket_name, ": Error deleting objects - ">> >>
          ELSE << >>)
         \o
         (IF vers = "deleted"
          THEN << <<"Bucket ", bucket_name, ": Deleted n versions/markers">> >>
          ELSE IF vers = "error"
          THEN << <<"Bucket ", bucket_name, ": Error deleting versions - ">> >>
          ELSE << >>)
         \o
         << <<"Bucket ", bucket_name, ": Successfully cleaned">> >>

\* cleanup_lambda_functions, one function: every failure of the mapping
\* calls is caught by the inner handler.
LambdaLogs(function_name, mappings) ==
    << <<"Lambda ", function_name, ": Prepared for deletion">> >>

\* cleanup_api_gateways, one gateway.
ApiGatewayLogs(gateway, check) ==
    IF check = "ok"
    THEN << <<"API Gateway ", gateway.type, " ", gateway.id,
              ": Ready for deletion">> >>
    ELSE IF check = "NotFound"
    THEN << <<"API Gateway ", gateway.type, " ", gateway.id,
              ": Already deleted">> >>
    ELSE << <<"API Gateway ", gateway.id, ": Check warning - ">> >>

(***************************************************************************)
(* The calls a strategy makes on the cloud clients for one resource.  by   *)
(* tells what a delete_objects call names: keys, versions or markers.      *)
(***************************************************************************)
Call(client, op, target, by) ==
    [client |-> client, op |-> op, target |-> target, by |-> by]

\* cleanup_s3_buckets, one bucket, from the outcomes of its phases.
S3Calls(bucket_name, head, objs, vers) ==
    << Call("s3", "head_bucket", bucket_name, "none") >>
    \o (IF head # "ok" THEN << >>
        ELSE << Call("s3", "list_objects_v2", bucket_name, "none") >>
             \o (IF objs = "deleted"
                 THEN << Call("s3", "delete_objects", bucket_name, "key") >>
                 ELSE << >>)
             \o << Call("s3", "list_object_versions", bucket_name, "none") >>
             \o (IF vers = "deleted"
                 THEN << Call("s3", "delete_objects", bucket_name, "version") >>
                 ELSE << >>))

\* cleanup_lambda_functions, one function: the listing of its mappings (the
\* deletion of the mappings listed is part of the outcome of the step).
LambdaCalls(function_name) ==
    << Call("lambda", "list_event_source_mappings", function_name, "none") >>

ApiGatewayCalls_AlwaysV1(gateway) ==
    << Call("apigateway", "get_rest_api", gateway.id, "none") >>

\* cleanup_api_gateways, one gateway: client = apigateway_client if
\* gateway_type == 'v1' else apigatewayv2_client, and its existence check.
ApiGatewayCalls(gateway) ==
    IF gateway.type = "v1"
    THEN << Call("apigateway", "get_rest_api", gateway.id, "none") >>
    ELSE << Call("apigatewayv2", "get_api", gateway.id, "none") >>

\* <<head_bucket, objects, versions>> outcomes explored for one bucket.
BucketOutcomes ==
    {<<"NoSuchBucket", "none", "none">>,
     <<"error", "none", "none">>,
     <<"ok", "deleted", "deleted">>,
     <<"ok", "error", "none">>,
     <<"ok", "none", "error">>}
CallOutcomes == {"ok", "NotFound", "error"}

(***************************************************************************)
(* Engine subprocesses.  subprocess.run returns (exit), raises             *)
(* TimeoutExpired (timeout) or raises another exception (fault).           *)
(***************************************************************************)
Outcome(kind, rc, out, err) ==
    [kind |-> kind, rc |-> rc, stdout |-> out, stderr |-> err]

NoOutcome == Outcome("none", 0, << >>, << >>)

DestroyOutcomes ==
    {Outcome("exit", 0, <<"Destroy complete!">>, << >>),
     Outcome("exit", 1, <<"Destroying...">>, <<"Error:", "BucketNotEmpty">>),
     Outcome("exit", 1, <<"Destroying...">>, <<"Error:", "AccessDenied">>),
     Outcome("timeout", 0, <<"Destroying...">>, << >>),
     Outcome("fault", 0, << >>, << >>)}

RefreshOutcomes ==
    {Outcome("exit", 0, << >>, << >>),
     Outcome("exit", 1, << >>, <<"Error:", "refresh">>),
     Outcome("timeout", 0, << >>, << >>),
     Outcome("fault", 0, << >>, << >>)}

\* "BucketNotEmpty" in stderr
Contains(text, token) == \E k \in 1 .. Len(text) : text[k] = token

ShouldRetry_AnyFailure(return_code, stderr) == return_code # 0

\* return_code != 0 and "BucketNotEmpty" not in stderr
ShouldRetry(return_code, stderr) ==
    return_code # 0 /\ ~Contains(stderr, "BucketNotEmpty")

NoStateLogs_Accumulated(cleanup_logs) == cleanup_logs

\* "cleanup_logs": []  of the two early returns
NoStateLogs(cleanup_logs) == << >>

\* for key, value in credentials.items(): if value: os.environ[key.upper()] = value
InjectEnv(env, credentials) ==
    [env EXCEPT
        !.AWS_ACCESS_KEY_ID =
            IF IsSet(credentials.aws_access_key_id)
            THEN credentials.aws_access_key_id ELSE @,
        !.AWS_SECRET_ACCESS_KEY =
            IF IsSet(credentials.aws_secret_access_key)
            THEN credentials.aws_secret_access_key ELSE @,
        !.AWS_SESSION_TOKEN =
            IF IsSet(credentials.aws_session_token)
            THEN credentials.aws_session_token ELSE @]

(***************************************************************************)
(* State.                                                                  *)
(***************************************************************************)
VARIABLES
    now,                  \* time.time(), in seconds
    environ,              \* os.environ of each server process
    cached_credentials,   \* aws_credential_manager.cached_credentials of each
    nExchange,            \* assume_role calls made so far
    stsExpiration,        \* response['Credentials']['Expiration'] of each exchange
    lastCall,             \* the most recent get_credentials call (history)
    lastOk,               \* per (user, project): what its last good call returned
    fs,                   \* the workspace directory of each project
    req,                  \* the request each server process is handling
    faultBudget,          \* failing outside calls explored per request
    life                  \* what the returned requests made of a project (history)

vars == <<now, environ, cached_credentials, nExchange, stsExpiration,
          lastCall, lastOk, fs, req, faultBudget, life>>

\* The server processes explored: each runs the module's globals of its own
\* (os.environ, aws_credential_manager) on the shared workspace directory.
Workers == {1, 2}

EnvConfigs ==
    [AWS_ACCESS_KEY_ID : {None, 0},
     AWS_SECRET_ACCESS_KEY : {None, 0},
     AWS_SESSION_TOKEN : {None},
     AWS_ROLE_ARN : {None, 0},
     AWS_EXTERNAL_ID : {None, 0},
     NODE_ENV : {"production", "development", "unset"}]

StsOutcomes == {"ok", "fail"}

\* The (user_id, project_id) arguments explored: a missing user, and two pairs
\* whose identifiers hold the separator.
Pairs ==
    {<<Missing, <<"c">>>>,
     <<<<"a">>, Missing>>,
     <<<<"a">>, <<"b", "-", "c">>>>,
     <<<<"a", "-", "b">>, <<"c">>>>}

NoCall ==
    [called |-> FALSE, user_id |-> Missing, project_id |-> Missing, t |-> 0,
     ok |-> FALSE, credentials |-> NoCredentials, error |-> "none",
     exchanges |-> 0, key |-> Missing, hit |-> FALSE, evicted |-> FALSE,
     touched |-> FALSE, cacheChanged |-> FALSE]

NoRecord == [credentials |-> NoCredentials, expiration |-> 0]

CallRecord(user_id, project_id, t, r, cacheBefore) ==
    [called |-> TRUE, user_id |-> user_id, project_id |-> project_id, t |-> t,
     ok |-> r.ok, credentials |-> r.credentials, error |-> r.error,
     exchanges |-> r.exchanges, key |-> r.key, hit |-> r.hit,
     evicted |-> r.evicted, touched |-> r.touched,
     cacheChanged |-> r.cache # cacheBefore]

(***************************************************************************)
(* A request in a server process: the locals of deploy_terraform or of     *)
(* destroy_terraform_with_cleanup, the position in it (pc), the response,  *)
(* and history: the calls made (trace), the workspace as the request found *)
(* it (start), the outcome of the first engine destroy (first), the        *)
(* outcomes of all its engine subprocesses in order (engine) and of the    *)
(* first cloud call of every strategy step in order (cloud), and whether   *)
(* get_aws_clients (destroy) or get_credentials (deploy) got credentials   *)
(* (resolved).  A response carries the                                     *)
(* mapping a state or outputs request answers with (data).  A thread in    *)
(* get_credentials_for_user has the locals cached and entry (the entry it  *)
(* is about to write).  calls is the history of the calls the strategies   *)
(* made on the cloud clients, buckets that of the buckets visited by the   *)
(* object-storage strategy where their contents are modelled.              *)
(***************************************************************************)
NoResponse ==
    [kind |-> "none", status |-> "", stdout |-> << >>, stderr |-> << >>,
     cleanup_logs |-> << >>, error |-> "", data |-> << >>]

IdleReq ==
    [pc |-> "idle", op |-> "none", project_id |-> Missing,
     user_id |-> Missing, cleanup_logs |-> << >>, strategy_logs |-> << >>,
     return_code |-> 0, stdout |-> << >>, stderr |-> << >>,
     aws_clients |-> FALSE, resources |-> EmptyInventory, i |-> 1,
     response |-> NoResponse, trace |-> << >>, start |-> NoWorkspace,
     first |-> NoOutcome, engine |-> << >>, cloud |-> << >>,
     resolved |-> FALSE, faults |-> 0, cached |-> NoRecord,
     entry |-> NoRecord, calls |-> << >>, buckets |-> << >>]

\* An outside call (STS, the cloud, the engine, the file system) that fails
\* is explored while the request has had fewer than faultBudget of them.
Affordable(r, bad) == ~bad \/ r.faults < faultBudget
Charge(r, bad) == [r EXCEPT !.faults = @ + (IF bad THEN 1 ELSE 0)]

(***************************************************************************)
(* The clock.                                                              *)
(***************************************************************************)
\* time.time() is read only by get_credentials_for_user: the clock is advanced
\* where a process is about to call the credential manager or is idle.
ClockReaders == {"idle", "d_creds", "d_clients", "p_creds"}

Tick ==
    /\ now < MaxTicks * TickSeconds
    /\ \E w \in Workers : req[w].pc \in ClockReaders
    /\ now' = now + TickSeconds
    /\ UNCHANGED <<environ, cached_credentials, nExchange, stsExpiration,
                   lastCall, lastOk, fs, req, faultBudget, life>>

(***************************************************************************)
(* One call  aws_credential_manager.get_credentials(user_id, project_id)   *)
(* in process w.                                                           *)
(***************************************************************************)
Resolve(w, user_id, project_id) ==
    \E sts \in StsOutcomes :
        LET r == get_credentials(environ[w], cached_credentials[w],
                                 user_id, project_id, now, sts, nExchange)
        IN  /\ nExchange + r.exchanges <= MaxExchanges
            /\ cached_credentials' =
                   [cached_credentials EXCEPT ![w] = r.cache]
            /\ nExchange' = nExchange + r.exchanges
            /\ stsExpiration' =
                   IF r.exchanges = 1 /\ r.ok
                   THEN [stsExpiration EXCEPT
                            ![nExchange + 1] = now + DurationSeconds]
                   ELSE stsExpiration
            /\ lastCall' = CallRecord(user_id, project_id, now, r,
                                      cached_credentials[w])
            /\ lastOk' =
                   IF r.ok /\ r.touched
                   THEN [lastOk EXCEPT ![<<user_id, project_id>>] =
                            [credentials |-> r.credentials,
                             expiration |-> r.cache[r.key].expiration]]
                   ELSE lastOk
            /\ UNCHANGED <<now, environ, fs, req, faultBudget, life>>

InitCred ==
    /\ now = 0
    /\ \E e \in EnvConfigs : environ = [w \in Workers |-> e]
    /\ cached_credentials = [w \in Workers |-> EmptyCache]
    /\ nExchange = 0
    /\ stsExpiration = [n \in 1 .. MaxExchanges + 1 |-> 0]
    /\ lastCall = NoCall
    /\ lastOk = [q \in Pairs |-> NoRecord]
    /\ fs = [p \in ProjectIds |-> NoWorkspace]
    /\ req = [w \in Workers |-> IdleReq]
    /\ faultBudget = MaxFaults
    /\ life = [p \in ProjectIds |-> "none"]

NextCred ==
    \/ Tick
    \/ \E q \in Pairs : Resolve(1, q[1], q[2])

SpecCred == InitCred /\ [][NextCred]_vars

(***************************************************************************)
(* destroy_terraform_with_cleanup, one step per call it makes on the       *)
(* file system, the credential manager, the cloud or the engine.           *)
(***************************************************************************)
credHistory == <<lastCall, lastOk, faultBudget>>
reqHistory == <<lastCall, lastOk, faultBudget, life>>
credState == <<environ, cached_credentials, nExchange, stsExpiration>>

SetReq(w, r) == req' = [req EXCEPT ![w] = r]

Result(status, out, err, logs) ==
    [kind |-> "result", status |-> status, stdout |-> out, stderr |-> err,
     cleanup_logs |-> logs, error |-> "", data |-> << >>]

\* What a get_credentials call leaves in the manager and at STS.
CredCall(w, r) ==
    /\ nExchange + r.exchanges <= MaxExchanges
    /\ cached_credentials' = [cached_credentials EXCEPT ![w] = r.cache]
    /\ nExchange' = nExchange + r.exchanges
    /\ stsExpiration' =
           IF r.exchanges = 1 /\ r.ok
           THEN [stsExpiration EXCEPT ![nExchange + 1] = now + DurationSeconds]
           ELSE stsExpiration

StartDestroy(w, project_id, user_id) ==
    /\ req[w].pc = "idle"
    /\ SetReq(w, [IdleReq EXCEPT !.pc = "d_exists", !.op = "destroy",
                                 !.project_id = project_id,
                                 !.user_id = user_id,
                                 !.start = fs[project_id]])
    /\ UNCHANGED <<now, credState, reqHistory, fs>>

\* if not os.path.exists(workspace_dir): return ...
D_Exists(w) ==
    LET r == req[w] IN
    /\ r.pc = "d_exists"
    /\ IF ~fs[r.project_id].exists
       THEN SetReq(w, [r EXCEPT !.pc = "done", !.response =
                Result("success",
                       <<"No infrastructure to destroy - workspace does not exist">>,
                       << >>, NoStateLogs(r.cleanup_logs))])
       ELSE SetReq(w, [r EXCEPT !.pc = "d_creds"])
    /\ UNCHANGED <<now, credState, reqHistory, fs>>

\* credentials = aws_credential_manager.get_credentials(user_id, project_id)
D_Creds(w) ==
    LET r == req[w] IN
    /\ r.pc = "d_creds"
    /\ \E sts \in StsOutcomes :
        LET c == get_credentials(environ[w], cached_credentials[w],
                                 r.user_id, r.project_id, now, sts, nExchange)
            bad == c.exchanges = 1 /\ ~c.ok
        IN  /\ CredCall(w, c)
            /\ Affordable(r, bad)
            /\ IF c.ok
               THEN /\ environ' = [environ EXCEPT
                                      ![w] = InjectEnv(@, c.credentials)]
                    /\ SetReq(w, [r EXCEPT !.pc = "d_state"])
               ELSE /\ environ' = environ
                    /\ SetReq(w, [Charge(r, bad) EXCEPT !.pc = "d_state",
                           !.cleanup_logs = Append(@,
                              <<"Warning: Could not get AWS credentials - ",
                                c.error>>)])
    /\ UNCHANGED <<now, reqHistory, fs>>

\* if not os.path.exists(state_file) or os.stat(state_file).st_size == 0
D_State(w) ==
    LET r == req[w] IN
    /\ r.pc = "d_state"
    /\ IF NoStateFound(fs[r.project_id])
       THEN SetReq(w, [r EXCEPT !.pc = "done", !.response =
                Result("success",
                       <<"No infrastructure to destroy - no state found">>,
                       << >>, NoStateLogs(r.cleanup_logs))])
       ELSE SetReq(w, [r EXCEPT !.pc = "d_clients"])
    /\ UNCHANGED <<now, credState, reqHistory, fs>>

ClientsBuilt_Always(credentials_ok, boto) == TRUE

\* get_aws_clients returns the clients, or None from its handler.
ClientsBuilt(credentials_ok, boto) == credentials_ok /\ boto = "ok"

\* aws_clients = get_aws_clients(user_id, project_id): None when the
\* credentials or a client cannot be had.
D_Clients(w) ==
    LET r == req[w] IN
    /\ r.pc = "d_clients"
    /\ \E sts \in StsOutcomes, boto \in {"ok", "error"} :
        LET c == get_credentials(environ[w], cached_credentials[w],
                                 r.user_id, r.project_id, now, sts, nExchange)
            bad == (c.exchanges = 1 /\ ~c.ok) \/ (c.ok /\ boto = "error")
        IN  /\ CredCall(w, c)
            /\ Affordable(r, bad)
            /\ SetReq(w, [Charge(r, bad) EXCEPT !.pc = "d_read",
                                   !.aws_clients = ClientsBuilt(c.ok, boto),
                                   !.resolved = c.ok])
    /\ UNCHANGED <<now, environ, reqHistory, fs>>

FirstStrategy == "d_s3"

AfterStrategy_Swapped(pc) ==
    IF pc = "d_s3" THEN "d_apigw"
    ELSE IF pc = "d_apigw" THEN "d_lambda"
    ELSE "d_destroy1"

\* The order of the strategy calls, and the engine after them.
AfterStrategy(pc) ==
    IF pc = "d_s3" THEN "d_lambda"
    ELSE IF pc = "d_lambda" THEN "d_apigw"
    ELSE "d_destroy1"

PreCleanupFailed_Aborts(r) ==
    [r EXCEPT !.pc = "done", !.response = [NoResponse EXCEPT !.kind = "crash"]]

\* except Exception as e: cleanup_logs.append(f"Pre-cleanup error: {e}")
PreCleanupFailed(r) ==
    [r EXCEPT !.pc = "d_destroy1",
              !.cleanup_logs = Append(@, <<"Pre-cleanup error: ">>)]

\* Step 1: read the state file and extract; Step 2 starts if clients exist.
D_Read(w) ==
    LET r == req[w]
        file == fs[r.project_id].state
        readable == fs[r.project_id].exists /\ file.kind = "json"
        extracted == extract_resources_from_state(file.data)
    IN
    /\ r.pc = "d_read"
    /\ IF ~readable \/ extracted.raised
       THEN SetReq(w, PreCleanupFailed(r))
       ELSE IF r.aws_clients
       THEN SetReq(w, [r EXCEPT !.pc = FirstStrategy, !.i = 1,
                                !.resources = extracted.resources])
       ELSE SetReq(w, [r EXCEPT !.pc = "d_destroy1",
                !.resources = extracted.resources,
                !.cleanup_logs = Append(@,
                   <<"Warning: AWS clients not available for pre-cleanup">>)])
    /\ UNCHANGED <<now, credState, reqHistory, fs>>

\* The strategy has returned: cleanup_logs.extend(its logs).
StrategyDone(w) ==
    LET r == req[w] IN
    SetReq(w, [r EXCEPT !.pc = AfterStrategy(r.pc), !.i = 1,
                        !.cleanup_logs = @ \o r.strategy_logs,
                        !.strategy_logs = << >>])

NextResource_StopOnFailure(i, n, bad) == IF bad THEN n + 1 ELSE i + 1

\* for x in list: the loop goes on to the next resource, whatever happened.
NextResource(i, n, bad) == i + 1

StrategyStepOn(w, r, name, n, call, logs, bad, issued) ==
    /\ Affordable(r, bad)
    /\ SetReq(w, [Charge(r, bad) EXCEPT !.i = NextResource(@, n, bad),
                        !.strategy_logs = @ \o logs,
                        !.trace = Append(@, name),
                        !.cloud = Append(@, call),
                        !.calls = @ \o issued])

StrategyStep(w, name, n, call, logs, bad, issued) ==
    StrategyStepOn(w, req[w], name, n, call, logs, bad, issued)

\* cleanup_s3_buckets(aws_clients['s3'], resources['s3_buckets'])
D_S3(w) ==
    LET r == req[w] IN
    /\ r.pc = "d_s3"
    /\ \/ /\ r.i <= Len(r.resources.s3_buckets)
          /\ \E calls \in BucketOutcomes :
                StrategyStep(w, "s3", Len(r.resources.s3_buckets), calls[1],
                    S3BucketLogs(r.resources.s3_buckets[r.i].name,
                                 calls[1], calls[2], calls[3]),
                    calls # <<"ok", "deleted", "deleted">>,
                    S3Calls(r.resources.s3_buckets[r.i].name,
                            calls[1], calls[2], calls[3]))
       \/ /\ r.i > Len(r.resources.s3_buckets)
          /\ StrategyDone(w)
    /\ UNCHANGED <<now, credState, reqHistory, fs>>

\* cleanup_lambda_functions(aws_clients['lambda'], resources['lambda_functions'])
D_Lambda(w) ==
    LET r == req[w] IN
    /\ r.pc = "d_lambda"
    /\ \/ /\ r.i <= Len(r.resources.lambda_functions)
          /\ \E mappings \in CallOutcomes :
                StrategyStep(w, "lambda", Len(r.resources.lambda_functions),
                    mappings,
                    LambdaLogs(r.resources.lambda_functions[r.i].name,
                               mappings),
                    mappings # "ok",
                    LambdaCalls(r.resources.lambda_functions[r.i].name))
       \/ /\ r.i > Len(r.resources.lambda_functions)
          /\ StrategyDone(w)
    /\ UNCHANGED <<now, credState, reqHistory, fs>>

\* cleanup_api_gateways(..., resources['api_gateways'])
D_ApiGw(w) ==
    LET r == req[w] IN
    /\ r.pc = "d_apigw"
    /\ \/ /\ r.i <= Len(r.resources.api_gateways)
          /\ \E check \in CallOutcomes :
                StrategyStep(w, "apigw", Len(r.resources.api_gateways), check,
                    ApiGatewayLogs(r.resources.api_gateways[r.i], check),
                    check # "ok",
                    ApiGatewayCalls(r.resources.api_gateways[r.i]))
       \/ /\ r.i > Len(r.resources.api_gateways)
          /\ StrategyDone(w)
    /\ UNCHANGED <<now, credState, reqHistory, fs>>

AfterException_Retry(r, o) == [r EXCEPT !.pc = "d_destroy1"]

\* except subprocess.TimeoutExpired / except Exception of Step 3.
AfterException(r, o) ==
    IF o.kind = "timeout"
    THEN [r EXCEPT !.return_code = 1, !.stdout = << >>,
             !.stderr = <<"Terraform destroy timed out after 10 minutes">>,
             !.cleanup_logs = Append(@, <<"Error: Terraform destroy timeout">>),
             !.pc = "d_finish"]
    ELSE [r EXCEPT !.return_code = 1, !.stdout = << >>,
             !.stderr = <<"Error running terraform destroy: ", "e">>,
             !.cleanup_logs =
                 Append(@, <<"Error: Exception during destroy - ", "e">>),
             !.pc = "d_finish"]

\* What an engine destroy leaves in the workspace: after exit 0 the state
\* file lists no resources.
EngineDestroyed(dir, o) ==
    IF o.kind = "exit" /\ o.rc = 0 /\ dir.exists
    THEN Workspace(FileJson(DocDestroyed))
    ELSE dir

\* subprocess.run(cwd=workspace_dir) raises when the directory is gone.
CanRun(dir, o) == dir.exists \/ o.kind = "fault"

\* A failing run in an existing directory is a failure from outside.
Failing(dir, o) == dir.exists /\ ~(o.kind = "exit" /\ o.rc = 0)

\* The first  terraform destroy -auto-approve -no-color -input=false
D_Destroy1(w) ==
    LET r == req[w] IN
    /\ r.pc = "d_destroy1"
    /\ \E o \in DestroyOutcomes :
        LET bad == Failing(fs[r.project_id], o)
            t == [Charge(r, bad) EXCEPT !.trace = Append(@, "destroy"),
                                        !.engine = Append(@, o),
                                        !.first = o]
        IN
        /\ CanRun(fs[r.project_id], o)
        /\ Affordable(r, bad)
        /\ fs' = [fs EXCEPT ![r.project_id] = EngineDestroyed(@, o)]
        /\ IF o.kind = "exit"
           THEN SetReq(w, [t EXCEPT !.return_code = o.rc,
                    !.stdout = o.stdout, !.stderr = o.stderr,
                    !.pc = IF ShouldRetry(o.rc, o.stderr)
                           THEN "d_refresh" ELSE "d_finish"])
           ELSE SetReq(w, AfterException(t, o))
    /\ UNCHANGED <<now, credState, reqHistory>>

\* time.sleep(5); terraform refresh: its result is not looked at.
D_Refresh(w) ==
    LET r == req[w] IN
    /\ r.pc = "d_refresh"
    /\ \E o \in RefreshOutcomes :
        LET bad == Failing(fs[r.project_id], o)
            t == [Charge(r, bad) EXCEPT !.trace = Append(@, "refresh"),
                                        !.engine = Append(@, o)]
        IN
        /\ CanRun(fs[r.project_id], o)
        /\ Affordable(r, bad)
        /\ IF o.kind = "exit"
           THEN SetReq(w, [t EXCEPT !.pc = "d_destroy2"])
           ELSE SetReq(w, AfterException(t, o))
    /\ UNCHANGED <<now, credState, reqHistory, fs>>

\* The second terraform destroy.
D_Destroy2(w) ==
    LET r == req[w] IN
    /\ r.pc = "d_destroy2"
    /\ \E o \in DestroyOutcomes :
        LET bad == Failing(fs[r.project_id], o)
            t == [Charge(r, bad) EXCEPT !.trace = Append(@, "destroy"),
                                        !.engine = Append(@, o)]
        IN
        /\ CanRun(fs[r.project_id], o)
        /\ Affordable(r, bad)
        /\ fs' = [fs EXCEPT ![r.project_id] = EngineDestroyed(@, o)]
        /\ IF o.kind = "exit"
           THEN SetReq(w, [t EXCEPT !.return_code = o.rc,
                    !.stdout = o.stdout, !.stderr = o.stderr,
                    !.cleanup_logs =
                        Append(@, <<"Performed retry with refresh">>),
                    !.pc = "d_finish"])
           ELSE SetReq(w, AfterException(t, o))
    /\ UNCHANGED <<now, credState, reqHistory>>

Rmtree_KeepsDirectory(dir) == dir

\* shutil.rmtree(workspace_dir), when it does not raise
Rmtree(dir) == NoWorkspace

DestroySucceeded_Always(return_code) == TRUE

\* if return_code == 0:  of Step 4
DestroySucceeded(return_code) == return_code = 0

StatusOf_AlwaysSuccess(return_code) == "success"

\* "status": "success" if return_code == 0 else "error"
StatusOf(return_code) == IF return_code = 0 THEN "success" ELSE "error"

WorkspaceCleanupLog_Silent(removed) == <<"Workspace directory cleaned up">>

\* The entry logged after shutil.rmtree(workspace_dir) or by its handler.
WorkspaceCleanupLog(removed) ==
    IF removed
    THEN <<"Workspace directory cleaned up">>
    ELSE <<"Warning: Workspace cleanup failed - ">>

\* Step 4: remove the workspace after exit 0, and return.
D_Finish(w) ==
    LET r == req[w] IN
    /\ r.pc = "d_finish"
    /\ IF DestroySucceeded(r.return_code)
       THEN \E removed \in BOOLEAN :
             LET logs == Append(Append(r.cleanup_logs,
                                   <<"SUCCESS: All infrastructure destroyed">>),
                            WorkspaceCleanupLog(removed))
                 bad == ~removed /\ fs[r.project_id].exists
             IN  /\ removed => fs[r.project_id].exists
                 /\ Affordable(r, bad)
                 /\ fs' = IF removed
                          THEN [fs EXCEPT ![r.project_id] = Rmtree(@)]
                          ELSE fs
                 /\ SetReq(w, [Charge(r, bad) EXCEPT !.pc = "done",
                        !.trace = Append(@, "rmtree"),
                        !.cleanup_logs = logs,
                        !.response =
                            Result(StatusOf(r.return_code),
                                   r.stdout, r.stderr, logs)])
       ELSE LET logs == Append(r.cleanup_logs,
                            <<"FAILED: Terraform destroy failed - ">>
                                \o r.stderr)
            IN  /\ fs' = fs
                /\ SetReq(w, [r EXCEPT !.pc = "done",
                       !.cleanup_logs = logs,
                       !.response =
                           Result(StatusOf(r.return_code),
                                  r.stdout, r.stderr, logs)])
    /\ UNCHANGED <<now, credState, reqHistory>>

\* History of a project over the requests that have returned: "deployed"
\* after a deploy answered success, "destroyed" from then on once a destroy
\* answered success after its shutil.rmtree returned, until the next deploy.
Observe(was, r) ==
    IF r.op = "deploy"
    THEN IF r.response.kind = "result" /\ r.response.status = "success"
         THEN "deployed" ELSE "none"
    ELSE IF was = "deployed"
            /\ r.response.status = "success"
            /\ Len(r.cleanup_logs) > 0
            /\ r.cleanup_logs[Len(r.cleanup_logs)] =
                   <<"Workspace directory cleaned up">>
    THEN "destroyed"
    ELSE was

\* The handler returns the response; the process takes the next request.
Return(w) ==
    /\ req[w].pc = "done"
    /\ SetReq(w, IdleReq)
    /\ UNCHANGED <<now, credState, credHistory, fs>>

\* Return, with the history of the project kept.
Returned(w) ==
    /\ Return(w)
    /\ life' = [life EXCEPT ![req[w].project_id] = Observe(@, req[w])]

DestroyStep(w) ==
    \/ D_Exists(w) \/ D_Creds(w) \/ D_State(w) \/ D_Clients(w) \/ D_Read(w)
    \/ D_S3(w) \/ D_Lambda(w) \/ D_ApiGw(w)
    \/ D_Destroy1(w) \/ D_Refresh(w) \/ D_Destroy2(w) \/ D_Finish(w)

(***************************************************************************)
(* deploy_terraform.                                                       *)
(***************************************************************************)
InitOutcomes ==
    {Outcome("exit", 0, <<"Initialized">>, << >>),
     Outcome("exit", 1, << >>, <<"Error:", "init">>),
     Outcome("fault", 0, << >>, << >>)}

ApplyOutcomes ==
    {Outcome("exit", 0, <<"Apply complete!">>, << >>),
     Outcome("exit", 1, <<"Applying...">>, <<"Error:", "apply">>),
     Outcome("fault", 0, << >>, << >>)}

\* The state document an apply that exits 0 writes.
AppliedDocs == {DocBucket}

\* main.py: except Exception -> {"error": ..., "logs": str(e)}
Crash(error) ==
    [kind |-> "crash", status |-> "", stdout |-> << >>, stderr |-> << >>,
     cleanup_logs |-> << >>, error |-> error, data |-> << >>]

StartDeploy(w, project_id, user_id) ==
    /\ req[w].pc = "idle"
    /\ SetReq(w, [IdleReq EXCEPT !.pc = "p_mkdir", !.op = "deploy",
                                 !.project_id = project_id,
                                 !.user_id = user_id,
                                 !.start = fs[project_id]])
    /\ UNCHANGED <<now, credState, reqHistory, fs>>

\* if not os.path.exists(workspace_dir): os.makedirs(workspace_dir)
P_Mkdir(w) ==
    LET r == req[w] IN
    /\ r.pc = "p_mkdir"
    /\ fs' = IF fs[r.project_id].exists
             THEN fs
             ELSE [fs EXCEPT ![r.project_id] = Workspace(FileAbsent)]
    /\ SetReq(w, [r EXCEPT !.pc = "p_creds"])
    /\ UNCHANGED <<now, credState, reqHistory>>

P_Creds(w) ==
    LET r == req[w] IN
    /\ r.pc = "p_creds"
    /\ \E sts \in StsOutcomes :
        LET c == get_credentials(environ[w], cached_credentials[w],
                                 r.user_id, r.project_id, now, sts, nExchange)
            bad == c.exchanges = 1 /\ ~c.ok
        IN  /\ CredCall(w, c)
            /\ Affordable(r, bad)
            /\ IF c.ok
               THEN /\ environ' = [environ EXCEPT
                                      ![w] = InjectEnv(@, c.credentials)]
                    /\ SetReq(w, [r EXCEPT !.pc = "p_rmstate",
                                            !.resolved = TRUE])
               ELSE /\ environ' = environ
                    /\ SetReq(w, [Charge(r, bad) EXCEPT !.pc = "done", !.response =
                           [Result("error", << >>, << >>, << >>) EXCEPT
                               !.error = "Failed to get AWS credentials"]])
    /\ UNCHANGED <<now, reqHistory, fs>>

\* if os.path.exists(state_file) and os.stat(state_file).st_size == 0:
\*     os.remove(state_file)
P_RmState(w) ==
    LET r == req[w] IN
    /\ r.pc = "p_rmstate"
    /\ fs' = IF fs[r.project_id].exists
                /\ fs[r.project_id].state.kind = "empty"
             THEN [fs EXCEPT ![r.project_id] = Workspace(FileAbsent)]
             ELSE fs
    /\ SetReq(w, [r EXCEPT !.pc = "p_init"])
    /\ UNCHANGED <<now, credState, reqHistory>>

InitFailed_Never(init_return_code) == FALSE

\* if init_return_code != 0: return {"status": "error", ...}
InitFailed(init_return_code) == init_return_code # 0

\* tf.init(upgrade=True)
P_Init(w) ==
    LET r == req[w] IN
    /\ r.pc = "p_init"
    /\ \E o \in InitOutcomes :
        LET bad == Failing(fs[r.project_id], o)
            t == [Charge(r, bad) EXCEPT !.trace = Append(@, "init"),
                                        !.engine = Append(@, o)]
        IN
        /\ CanRun(fs[r.project_id], o)
        /\ Affordable(r, bad)
        /\ IF o.kind = "fault"
           THEN SetReq(w, [t EXCEPT !.pc = "done",
                                    !.response = Crash("Terraform failed")])
           ELSE IF InitFailed(o.rc)
           THEN SetReq(w, [t EXCEPT !.pc = "done", !.response =
                    [Result("error", << >>, << >>, << >>) EXCEPT
                        !.error = "Terraform init failed"]])
           ELSE SetReq(w, [t EXCEPT !.pc = "p_apply"])
    /\ UNCHANGED <<now, credState, reqHistory, fs>>

\* tf.apply(skip_plan=True, capture_output=True)
P_Apply(w) ==
    LET r == req[w] IN
    /\ r.pc = "p_apply"
    /\ \E o \in ApplyOutcomes, doc \in AppliedDocs :
        LET bad == Failing(fs[r.project_id], o)
            t == [Charge(r, bad) EXCEPT !.trace = Append(@, "apply"),
                                        !.engine = Append(@, o)]
        IN
        /\ CanRun(fs[r.project_id], o)
        /\ Affordable(r, bad)
        /\ fs' = IF o.kind = "exit" /\ o.rc = 0 /\ fs[r.project_id].exists
                 THEN [fs EXCEPT ![r.project_id] = Workspace(FileJson(doc))]
                 ELSE fs
        /\ IF o.kind = "fault"
           THEN SetReq(w, [t EXCEPT !.pc = "done",
                                    !.response = Crash("Terraform failed")])
           ELSE SetReq(w, [t EXCEPT !.pc = "done", !.return_code = o.rc,
                    !.stdout = o.stdout, !.stderr = o.stderr,
                    !.response =
                        Result(IF o.rc = 0 THEN "success" ELSE "error",
                               o.stdout, o.stderr, << >>)])
    /\ UNCHANGED <<now, credState, reqHistory>>

DeployStep(w) ==
    \/ P_Mkdir(w) \/ P_Creds(w) \/ P_RmState(w) \/ P_Init(w) \/ P_Apply(w)

(***************************************************************************)
(* Spec: one server process handling deploy and destroy requests, one      *)
(* after the other, while time passes.                                     *)
(***************************************************************************)
\* The credential configurations explored by Spec.
Env(key, token, role, mode) ==
    [AWS_ACCESS_KEY_ID |-> key, AWS_SECRET_ACCESS_KEY |-> key,
     AWS_SESSION_TOKEN |-> token, AWS_ROLE_ARN |-> role,
     AWS_EXTERNAL_ID |-> role, NODE_ENV |-> mode]

SpecEnvs ==
    {Env(0, None, None, "development"),
     Env(None, None, 0, "development"),
     Env(None, None, 0, "production"),
     Env(None, None, None, "development")}

SpecProject == <<"c">>
SpecUsers == {Missing, <<"a">>}

SpecDirs ==
    {NoWorkspace, Workspace(FileAbsent), Workspace(FileEmpty),
     Workspace(FileMalformed), Workspace(FileJson(DocNull)),
     Workspace(FileJson(DocFull))}

Init ==
    /\ now = 0
    /\ \E e \in SpecEnvs : environ = [w \in Workers |-> e]
    /\ cached_credentials = [w \in Workers |-> EmptyCache]
    /\ nExchange = 0
    /\ stsExpiration = [n \in 1 .. MaxExchanges + 1 |-> 0]
    /\ lastCall = NoCall
    /\ lastOk = [q \in Pairs |-> NoRecord]
    /\ \E d \in SpecDirs :
          fs = [p \in ProjectIds |-> IF p = SpecProject THEN d ELSE NoWorkspace]
    /\ req = [w \in Workers |-> IdleReq]
    /\ faultBudget = MaxFaults
    /\ life = [p \in ProjectIds |-> "none"]

Next ==
    \/ Tick
    \/ \E u \in SpecUsers : StartDestroy(1, SpecProject, u)
    \/ \E u \in SpecUsers : StartDeploy(1, SpecProject, u)
    \/ DestroyStep(1)
    \/ DeployStep(1)
    \/ Returned(1)

Spec == Init /\ [][Next]_vars

(***************************************************************************)
(* SpecConc: two server processes of the application on one workspace      *)
(* directory.  A handler is an  async def  that calls the blocking         *)
(* deploy_terraform / destroy_terraform without awaiting, so one process   *)
(* handles its requests one after the other; nothing in main.py or         *)
(* deploy.py orders the requests of different processes.                   *)
(***************************************************************************)
InitConc ==
    /\ now = 0
    /\ environ = [w \in Workers |-> Env(0, None, None, "development")]
    /\ cached_credentials = [w \in Workers |-> EmptyCache]
    /\ nExchange = 0
    /\ stsExpiration = [n \in 1 .. MaxExchanges + 1 |-> 0]
    /\ lastCall = NoCall
    /\ lastOk = [q \in Pairs |-> NoRecord]
    /\ fs = [p \in ProjectIds |->
                IF p = SpecProject
                THEN Workspace(FileJson(DocBucket)) ELSE NoWorkspace]
    /\ req = [w \in Workers |-> IdleReq]
    /\ faultBudget = ConcFaults
    /\ life = [p \in ProjectIds |-> "none"]

\* The projects whose requests reach process w in SpecConc.
ConcProjects(w) == IF w = 1 THEN {SpecProject} ELSE ProjectIds

NextConc ==
    \E w \in Workers :
        \/ \E p \in ConcProjects(w) : StartDestroy(w, p, Missing)
        \/ \E p \in ConcProjects(w) : StartDeploy(w, p, Missing)
        \/ DestroyStep(w)
        \/ DeployStep(w)
        \/ Return(w) /\ UNCHANGED life

SpecConc == InitConc /\ [][NextConc]_vars

(***************************************************************************)
(* Claims about the credential manager, checked under SpecCred.            *)
(***************************************************************************)
RoleConfigured == IsSet(environ[1].AWS_ROLE_ARN) /\ IsSet(environ[1].AWS_EXTERNAL_ID)
DirectConfigured ==
    IsSet(environ[1].AWS_ACCESS_KEY_ID) /\ IsSet(environ[1].AWS_SECRET_ACCESS_KEY)
IdMissing == lastCall.user_id = Missing \/ lastCall.project_id = Missing

C5_Step(q) ==
    LET prev == lastOk[q]
        key == lastCall'.key
        before == cached_credentials[1]
        after == cached_credentials'[1]
    IN  /\ (prev # NoRecord /\ now < prev.expiration) =>
               /\ lastCall'.ok
               /\ lastCall'.credentials = prev.credentials
               /\ nExchange' = nExchange
        /\ (lastCall'.touched /\ key \notin DOMAIN before) =>
               nExchange' = nExchange + 1
        /\ (lastCall'.touched /\ key \in DOMAIN before
                /\ before[key].expiration <= now) =>
               /\ nExchange' = nExchange + 1
               /\ lastCall'.ok =>
                      /\ key \in DOMAIN after
                      /\ after[key].credentials = lastCall'.credentials
                      /\ after[key].credentials # before[key].credentials
                      /\ after[key].expiration > now
               /\ ~lastCall'.ok => key \notin DOMAIN after

\* C5: a resolve call for a (user, project) made before the stored expiration
\* of the set its previous good call returned gets that same set and makes no
\* assume_role call (the call that missed made exactly one); a call that
\* finds the key's entry expired makes exactly one assume_role call and, when
\* it succeeds, leaves the new set as the key's entry.
C5_CacheCorrectness ==
    [][\A q \in Pairs : Resolve(1, q[1], q[2]) => C5_Step(q)]_vars

\* C5 witness: one key was exchanged, expired, exchanged again and then hit.
C5_Witness ==
    /\ lastCall.hit
    /\ lastCall.credentials = IssuedCredentials(2)
    /\ stsExpiration[1] > 0
    /\ Cardinality(DOMAIN cached_credentials[1]) = 1

\* C6: a cache hit never returns a delegated set at or after its real
\* expiration minus the 600 s margin.
C6_NeverPastMargin ==
    lastCall.hit =>
        lastCall.t < stsExpiration[lastCall.credentials.aws_access_key_id] - 600

\* C6 witness: a hit some time after the exchange.
C6_Witness == lastCall.hit /\ lastCall.t > 0

\* C7: with direct credentials and a delegation target both configured,
\* resolve returns delegated credentials in production and the direct ones,
\* without any exchange, otherwise.
C7_BothConfigured ==
    (lastCall.called /\ DirectConfigured /\ RoleConfigured) =>
        IF environ[1].NODE_ENV = "production"
        THEN lastCall.ok => lastCall.touched
        ELSE /\ lastCall.ok
             /\ lastCall.credentials = DirectCredentials(environ[1])
             /\ lastCall.exchanges = 0

\* C8: with only a delegation target configured and an identifier missing,
\* resolve raises a configuration error without touching the cache or STS in
\* production, and otherwise resolves under the key of
\* ('dev-user', 'dev-project').
C8_MissingIdentifier ==
    (lastCall.called /\ RoleConfigured /\ ~DirectConfigured /\ IdMissing) =>
        IF environ[1].NODE_ENV = "production"
        THEN /\ ~lastCall.ok
             /\ lastCall.error = "ConfigurationError"
             /\ lastCall.exchanges = 0
             /\ ~lastCall.touched
             /\ ~lastCall.cacheChanged
        ELSE /\ lastCall.touched
             /\ lastCall.key =
                    <<"dev", "-", "user", "-", "dev", "-", "project">>
             /\ lastCall.hit => lastCall.exchanges = 0
             /\ lastCall.ok =>
                    cached_credentials[1][lastCall.key].credentials =
                        lastCall.credentials

\* C8 witness: a later call without identifiers hits the placeholder entry.
C8_Witness ==
    /\ RoleConfigured /\ ~DirectConfigured /\ IdMissing
    /\ environ[1].NODE_ENV # "production"
    /\ lastCall.hit

\* C9: without a delegation target resolve makes no assume_role call and
\* neither reads nor writes the cache; it returns the direct credentials when
\* they are configured and raises a configuration error otherwise.
C9_NoDelegationTarget ==
    (lastCall.called /\ ~RoleConfigured) =>
        /\ lastCall.exchanges = 0
        /\ nExchange = 0
        /\ ~lastCall.touched
        /\ ~lastCall.cacheChanged
        /\ cached_credentials[1] = EmptyCache
        /\ IF DirectConfigured
           THEN /\ lastCall.ok
                /\ lastCall.credentials = DirectCredentials(environ[1])
           ELSE /\ ~lastCall.ok
                /\ lastCall.error = "ConfigurationError"

\* C9 witness: a role reference without its external id is no delegation
\* target; the direct credentials are returned.
C9_Witness ==
    /\ lastCall.called /\ lastCall.ok
    /\ IsSet(environ[1].AWS_ROLE_ARN) /\ ~IsSet(environ[1].AWS_EXTERNAL_ID)

(***************************************************************************)
(* Claims about destroy, checked under Spec (the request of process 1).    *)
(***************************************************************************)
R == req[1]
DestroyDone == R.pc = "done" /\ R.op = "destroy"
Count(seq, x) == Cardinality({k \in 1 .. Len(seq) : seq[k] = x})
FirstFailed == R.op = "destroy" /\ R.first.kind = "exit" /\ R.first.rc # 0
FirstHasMarker ==
    \E k \in 1 .. Len(R.first.stderr) : R.first.stderr[k] = "BucketNotEmpty"

\* C1: a destroy that found no workspace directory, or a missing or
\* zero-length state file, answers success with an empty cleanup log and has
\* run no cleanup strategy and no engine subprocess, in every invocation and
\* under every credential configuration.
C1_NoStateIdempotent ==
    (DestroyDone /\ NoStateFound(R.start)) =>
        /\ R.response.kind = "result"
        /\ R.response.status = "success"
        /\ R.response.cleanup_logs = << >>
        /\ R.response.stderr = << >>
        /\ R.trace = << >>
        /\ fs[R.project_id] = R.start

\* C1 witness: a repeated destroy on an empty state file whose credential
\* resolution failed (the warning is not in the returned log).
C1_Witness ==
    /\ DestroyDone
    /\ R.start.exists /\ R.start.state.kind = "empty"
    /\ Len(R.cleanup_logs) > 0
    /\ nExchange = 2

\* C2: after a first engine destroy that exits non-zero without the
\* bucket-not-empty marker, the request has made exactly one refresh call and
\* exactly two destroy calls when it returns.
C2_ExactlyOneRetry ==
    (DestroyDone /\ FirstFailed /\ ~FirstHasMarker) =>
        /\ Count(R.trace, "refresh") = 1
        /\ Count(R.trace, "destroy") = 2

\* C3: after a first engine destroy that exits non-zero with the
\* bucket-not-empty marker there is no refresh and no second destroy, and the
\* request ends with status error and that attempt's stderr.
C3_MarkerIsFinal ==
    (FirstFailed /\ FirstHasMarker) =>
        /\ R.pc \in {"d_finish", "done"}
        /\ Count(R.trace, "refresh") = 0
        /\ Count(R.trace, "destroy") = 1
        /\ R.pc = "done" =>
              /\ R.response.status = "error"
              /\ R.response.stderr = R.first.stderr
              /\ R.response.stderr # << >>

\* C3 witness: such a request has returned.
C3_Witness == DestroyDone /\ FirstFailed /\ FirstHasMarker

Rank(call) ==
    IF call = "s3" THEN 1
    ELSE IF call = "lambda" THEN 2
    ELSE IF call = "apigw" THEN 3
    ELSE 4

\* C4: in one destroy request no bucket step follows a function step, no
\* function step follows a gateway check, and none of them follows an engine
\* call; when a later family starts, every resource of the earlier families
\* has had its step.
C4_CleanupOrder ==
    R.op = "destroy" =>
        /\ \A j \in 1 .. Len(R.trace) : \A k \in 1 .. j :
              Rank(R.trace[k]) <= Rank(R.trace[j])
        /\ (\E k \in 1 .. Len(R.trace) : Rank(R.trace[k]) \in {2, 3, 4})
              /\ Count(R.trace, "s3") + Count(R.trace, "lambda")
                    + Count(R.trace, "apigw") > 0
              => Count(R.trace, "s3") = Len(R.resources.s3_buckets)
        /\ (\E k \in 1 .. Len(R.trace) : Rank(R.trace[k]) \in {3, 4})
              /\ Count(R.trace, "s3") + Count(R.trace, "lambda")
                    + Count(R.trace, "apigw") > 0
              => Count(R.trace, "lambda") = Len(R.resources.lambda_functions)
        /\ (\E k \in 1 .. Len(R.trace) : Rank(R.trace[k]) = 4)
              /\ Count(R.trace, "s3") + Count(R.trace, "lambda")
                    + Count(R.trace, "apigw") > 0
              => Count(R.trace, "apigw") = Len(R.resources.api_gateways)

\* C4 witness: two buckets, then the function, then the gateway, then the
\* engine.
C4_Witness ==
    /\ DestroyDone
    /\ R.trace = <<"s3", "s3", "lambda", "apigw", "destroy", "rmtree">>

(***************************************************************************)
(* Claims about concurrent requests, checked under SpecConc.               *)
(***************************************************************************)
\* Between its first and its last access to the workspace or the state file.
Accessing(w) ==
    req[w].pc \in {"d_creds", "d_state", "d_clients", "d_read", "d_s3",
                   "d_lambda", "d_apigw", "d_destroy1", "d_refresh",
                   "d_destroy2", "d_finish",
                   "p_creds", "p_rmstate", "p_init", "p_apply"}

\* C10: no two requests for the same project are at the same time between
\* their first and last access to that project's workspace.
C10_SameProjectSerialized ==
    \A w1 \in Workers, w2 \in Workers :
        (w1 # w2 /\ Accessing(w1) /\ Accessing(w2)) =>
            req[w1].project_id # req[w2].project_id

(***************************************************************************)
(* Claims about the lifecycle of one project, checked under Spec.          *)
(***************************************************************************)
\* C11: once a deploy of the project has answered success and a destroy of it
\* has then answered success after removing the workspace, the workspace
\* directory does not exist until the next deploy, and every destroy that
\* returns in that time answers success with the 'No infrastructure to
\* destroy' message and has run no cleanup step and no engine subprocess.
C11_DestroyedStaysDestroyed ==
    life[SpecProject] = "destroyed" =>
        /\ R.op # "deploy" => ~fs[SpecProject].exists
        /\ DestroyDone =>
              /\ R.response.kind = "result"
              /\ R.response.status = "success"
              /\ R.response.stdout =
                    <<"No infrastructure to destroy - workspace does not exist">>
              /\ R.response.cleanup_logs = << >>
              /\ R.trace = << >>
              /\ R.engine = << >>

\* C11 witness: a later destroy has returned after the deploy and the
\* destroy that removed the workspace.
C11_Witness ==
    /\ life[SpecProject] = "destroyed"
    /\ DestroyDone
    /\ ~R.start.exists

(***************************************************************************)
(* Claims about the last step of destroy, checked under SpecFair.          *)
(***************************************************************************)
LastEngine(r) == r.engine[Len(r.engine)]
LastExitedZero(r) ==
    /\ Len(r.engine) > 0
    /\ LastEngine(r).kind = "exit" /\ LastEngine(r).rc = 0
HasEntry(logs, entry) == \E k \in 1 .. Len(logs) : logs[k] = entry

\* C12: the last step of a destroy changes the workspace directory or its
\* state file only when the last engine subprocess of the request was a
\* destroy that exited 0; when the step answers status error the directory
\* and the state file are what they were before the step.
C12_ErrorLeavesWorkspace ==
    [][D_Finish(1) =>
          /\ fs' # fs =>
                /\ LastExitedZero(req[1])
                /\ req[1].trace[Len(req[1].trace)] = "destroy"
                /\ req'[1].response.status = "success"
          /\ req'[1].response.status = "error" => fs' = fs]_vars

\* C12 witness: a destroy has answered error after a failing engine run and
\* the workspace and its state file are as the request found them.
C12_Witness ==
    /\ DestroyDone
    /\ R.response.status = "error"
    /\ Len(R.engine) > 0
    /\ R.start.exists /\ R.start.state.kind = "json"
    /\ fs[SpecProject] = R.start

\* C13: a destroy whose last engine destroy exited 0 and whose removal of the
\* workspace directory failed answers status success, and the last entry of
\* its cleanup log is the removal warning.
C13_RemovalFailureIsWarning ==
    (DestroyDone /\ LastExitedZero(R) /\ fs[SpecProject].exists) =>
        /\ R.response.kind = "result"
        /\ R.response.status = "success"
        /\ Len(R.response.cleanup_logs) >= 2
        /\ R.response.cleanup_logs[Len(R.response.cleanup_logs)] =
               <<"Warning: Workspace cleanup failed - ">>
        /\ HasEntry(R.response.cleanup_logs,
                    <<"SUCCESS: All infrastructure destroyed">>)

\* C13 witness: the engine destroyed everything and the directory is still
\* there when the request has returned its answer.
C13_Witness ==
    /\ DestroyDone
    /\ LastExitedZero(R)
    /\ R.trace[Len(R.trace)] = "rmtree"
    /\ fs[SpecProject].exists

(***************************************************************************)
(* Claims about the engine subprocesses of destroy: C14 and C16 are        *)
(* checked under Spec, C15 under SpecFair.                                 *)
(***************************************************************************)
\* The engine subprocesses of the request are the entries of trace that are
\* no strategy step and no removal, in order; engine holds their outcomes.
EngineCalls(r) ==
    SelectSeq(r.trace, LAMBDA c : c \in {"destroy", "refresh"})

\* C14: once the refresh of the retry path has been run, whatever its
\* outcome, the request runs a second engine destroy before it returns, and
\* it answers success exactly when that second destroy exited 0.
C14_RefreshResultIgnored ==
    (DestroyDone /\ Count(R.trace, "refresh") > 0) =>
        /\ EngineCalls(R) = <<"destroy", "refresh", "destroy">>
        /\ R.response.status = "success" <=> LastExitedZero(R)

\* SpecFair: one server process handling destroy requests one after the other,
\* a step of the request being taken as long as one is possible: every call
\* the request makes returns or raises within its timeout.
NextFair ==
    \/ \E u \in SpecUsers : StartDestroy(1, SpecProject, u)
    \/ DestroyStep(1)
    \/ Returned(1)

SpecFair == Init /\ [][NextFair]_vars /\ WF_vars(DestroyStep(1))

\* A credential call that would need an assume_role call beyond MaxExchanges
\* is outside the executions explored.
BeyondExchanges ==
    /\ R.pc \in {"d_creds", "d_clients"}
    /\ ~ENABLED DestroyStep(1)

C15_Bounded ==
    R.op = "destroy" =>
        /\ Count(R.trace, "destroy") <= 2
        /\ Count(R.trace, "refresh") <= 1
        /\ EngineCalls(R) \in {<< >>, <<"destroy">>, <<"destroy", "refresh">>,
                               <<"destroy", "refresh", "destroy">>}
        /\ Len(R.engine) = Len(EngineCalls(R))
        /\ R.pc = "done" =>
              /\ R.response.kind = "result"
              /\ R.response.status \in {"success", "error"}

\* C15: a destroy request runs the engine destroy at most twice and the
\* refresh at most once, the second destroy only after the refresh, and it
\* always comes to return an answer with status success or error.
C15_BoundedAndTerminates ==
    /\ []C15_Bounded
    /\ [](R.op = "destroy" => <>(DestroyDone \/ BeyondExchanges))

\* C15 witness: a request that ran destroy, refresh and destroy has answered.
C15_Witness ==
    /\ DestroyDone
    /\ EngineCalls(R) = <<"destroy", "refresh", "destroy">>
    /\ R.response.status \in {"success", "error"}

\* C16: when an engine subprocess of a destroy request has timed out it was
\* the last one the request ran; the request goes on to answer status error
\* with an empty stdout and the timeout entry in its cleanup log, and the
\* workspace is not removed.
C16_TimeoutIsError ==
    \A k \in 1 .. Len(R.engine) :
        (R.op = "destroy" /\ R.engine[k].kind = "timeout") =>
            /\ k = Len(R.engine)
            /\ R.pc \in {"d_finish", "done"}
            /\ R.pc = "done" =>
                  /\ R.response.kind = "result"
                  /\ R.response.status = "error"
                  /\ R.response.stdout = << >>
                  /\ HasEntry(R.response.cleanup_logs,
                              <<"Error: Terraform destroy timeout">>)
                  /\ Count(R.trace, "rmtree") = 0
                  /\ fs[SpecProject] = R.start

\* C16 witness: the second destroy wrote output and timed out, and the
\* request has answered.
C16_Witness ==
    /\ DestroyDone
    /\ Len(R.engine) = 3
    /\ R.engine[3].kind = "timeout"
    /\ R.engine[3].stdout # << >>

(***************************************************************************)
(* Claims about the pre-cleanup phase of destroy: C17 is checked under     *)
(* Spec, C18 under SpecFair.                                               *)
(***************************************************************************)
\* The request found a non-empty state file and is past Step 1.
PastRead(r) ==
    /\ r.op = "destroy"
    /\ ~NoStateFound(r.start)
    /\ r.pc \in {"d_s3", "d_lambda", "d_apigw", "d_destroy1", "d_refresh",
                 "d_destroy2", "d_finish", "done"}
Parseable(dir) ==
    /\ dir.state.kind = "json"
    /\ ~extract_resources_from_state(dir.state.data).raised
StrategySteps(r) ==
    SelectSeq(r.trace, LAMBDA c : c \in {"s3", "lambda", "apigw"})

\* C17: a destroy on a non-empty state file whose get_aws_clients could not
\* resolve credentials runs no cleanup strategy, has a warning in its cleanup
\* log (that the clients are not available when the state file could be
\* read, the pre-cleanup error otherwise) and runs the engine destroy as its
\* first call.
C17_NoClientsNoCleanup ==
    (PastRead(R) /\ ~R.resolved) =>
        /\ ~R.aws_clients
        /\ R.pc \notin {"d_s3", "d_lambda", "d_apigw"}
        /\ StrategySteps(R) = << >>
        /\ R.cloud = << >>
        /\ IF Parseable(R.start)
           THEN HasEntry(R.cleanup_logs,
                    <<"Warning: AWS clients not available for pre-cleanup">>)
           ELSE HasEntry(R.cleanup_logs, <<"Pre-cleanup error: ">>)
        /\ R.pc \notin {"d_destroy1"} =>
              /\ Len(R.trace) > 0
              /\ R.trace[1] = "destroy"

\* C17 witness: no credentials are configured, the state file lists
\* resources, and the request has run the engine and answered.
C17_Witness ==
    /\ DestroyDone
    /\ ~R.resolved
    /\ ~DirectConfigured /\ ~RoleConfigured
    /\ R.start = Workspace(FileJson(DocFull))
    /\ R.trace[1] = "destroy"

\* The request found a non-empty state file.
HasState(r) == r.op = "destroy" /\ ~NoStateFound(r.start)

C18_Confined ==
    HasState(R) =>
        /\ R.pc = "done" =>
              /\ R.response.kind = "result"
              /\ Len(R.engine) >= 1
              /\ R.trace[Len(StrategySteps(R)) + 1] = "destroy"
              /\ R.response.status = "success" <=> LastExitedZero(R)
        /\ (PastRead(R) /\ ~Parseable(R.start)) =>
              /\ HasEntry(R.cleanup_logs, <<"Pre-cleanup error: ">>)
              /\ StrategySteps(R) = << >>
        /\ (PastRead(R) /\ ~DirectConfigured /\ ~RoleConfigured) =>
              HasEntry(R.cleanup_logs,
                       <<"Warning: Could not get AWS credentials - ",
                         "ConfigurationError">>)

RECURSIVE Dedupe(_)
Dedupe(seq) ==
    IF Len(seq) <= 1 THEN seq
    ELSE IF seq[1] = seq[2] THEN Dedupe(Tail(seq))
    ELSE <<seq[1]>> \o Dedupe(Tail(seq))

\* The resources named by the entries of a strategy's log, in order: the
\* name is the token before the last one of a gateway entry and the second
\* token of a bucket or function entry.
Named(logs, gateway) ==
    Dedupe([k \in 1 .. Len(logs) |->
               IF gateway THEN logs[k][Len(logs[k]) - 1] ELSE logs[k][2]])

FirstNames(list, n, gateway) ==
    [k \in 1 .. n |-> IF gateway THEN list[k].id ELSE list[k].name]

InStrategies(r) ==
    /\ r.op = "destroy"
    /\ r.pc \in {"d_s3", "d_lambda", "d_apigw"}
AfterStrategies(r) ==
    /\ PastRead(r) /\ ~InStrategies(r)
    /\ r.aws_clients /\ Parseable(r.start)

\* C19: a strategy that has visited n resources of its list has logged them
\* in the order of the list, one after the other whatever the outcomes of
\* their cloud calls; when the strategies have returned every bucket, every
\* function and every gateway of the inventory has had its step, and no
\* pre-cleanup error is logged.
C19_StrategiesVisitAll ==
    /\ (InStrategies(R) /\ R.pc = "d_s3") =>
          /\ R.i <= Len(R.resources.s3_buckets) + 1
          /\ Named(R.strategy_logs, FALSE) =
                FirstNames(R.resources.s3_buckets, R.i - 1, FALSE)
    /\ (InStrategies(R) /\ R.pc = "d_lambda") =>
          /\ R.i <= Len(R.resources.lambda_functions) + 1
          /\ Named(R.strategy_logs, FALSE) =
                FirstNames(R.resources.lambda_functions, R.i - 1, FALSE)
    /\ (InStrategies(R) /\ R.pc = "d_apigw") =>
          /\ R.i <= Len(R.resources.api_gateways) + 1
          /\ Named(R.strategy_logs, TRUE) =
                FirstNames(R.resources.api_gateways, R.i - 1, TRUE)
    /\ AfterStrategies(R) =>
          /\ Count(R.trace, "s3") = Len(R.resources.s3_buckets)
          /\ Count(R.trace, "lambda") = Len(R.resources.lambda_functions)
          /\ Count(R.trace, "apigw") = Len(R.resources.api_gateways)
          /\ Len(R.cloud) = Len(StrategySteps(R))
          /\ ~HasEntry(R.cleanup_logs, <<"Pre-cleanup error: ">>)

\* C19 witness: the first bucket could not be accessed, the second was
\* cleaned, the function's mapping call failed and the gateway was checked.
C19_Witness ==
    /\ AfterStrategies(R)
    /\ R.cloud = <<"error", "ok", "error", "ok">>

\* The entries logged for the function visited by strategy step k.
FunctionOfStep(r, k) ==
    r.resources.lambda_functions[k - Count(r.trace, "s3")]
AllLogs(r) == r.cleanup_logs \o r.strategy_logs

\* C20: a function whose list_event_source_mappings call reported not-found
\* has the 'Already deleted' entry in the cleanup log and not the 'Prepared
\* for deletion' entry.
C20_NotFoundIsAlreadyDeleted ==
    R.op = "destroy" =>
        \A k \in 1 .. Len(R.cloud) :
            (StrategySteps(R)[k] = "lambda" /\ R.cloud[k] = "NotFound") =>
                /\ HasEntry(AllLogs(R),
                       <<"Lambda ", FunctionOfStep(R, k).name,
                         ": Already deleted">>)
                /\ ~HasEntry(AllLogs(R),
                       <<"Lambda ", FunctionOfStep(R, k).name,
                         ": Prepared for deletion">>)

(***************************************************************************)
(* SpecExtract: a destroy request up to the end of Step 1, on every state  *)
(* document of at most two resources of at most two instances each.        *)
(***************************************************************************)
ResourceTypes ==
    {"aws_s3_bucket", "aws_lambda_function", "aws_api_gateway_rest_api",
     "aws_apigatewayv2_api", "aws_dynamodb_table", "aws_iam_role",
     "aws_sqs_queue"}

\* The attribute that identifies an instance of the type.
IdAttr(resource_type) ==
    IF resource_type = "aws_s3_bucket" THEN "bucket"
    ELSE IF resource_type = "aws_lambda_function" THEN "function_name"
    ELSE IF resource_type \in {"aws_api_gateway_rest_api",
                               "aws_apigatewayv2_api"} THEN "id"
    ELSE "name"

\* Instances named x, y and '', and one that lacks the attribute.
InstanceChoices(resource_type) ==
    {(IdAttr(resource_type) :> v) @@ ("arn" :> "arn") : v \in {"x", "y", ""}}
        \cup {("arn" :> "arn")}

InstanceLists(resource_type) ==
    {<< >>} \cup {<<i>> : i \in InstanceChoices(resource_type)}
        \cup {<<i, j>> : i, j \in InstanceChoices(resource_type)}

\* A resource of every type with every list of instances, or without the
\* 'instances' field.
ResourceChoices ==
    UNION {{[type |-> t, instances |-> l] : l \in InstanceLists(t)}
              : t \in ResourceTypes}
        \cup {("type" :> t) : t \in ResourceTypes}

ExtractDocs ==
    {DocNone, DocNull, DocScalar}
        \cup {[shape |-> "list", resources |-> l] :
                 l \in {<< >>} \cup {<<a>> : a \in ResourceChoices}
                         \cup {<<a, b>> : a, b \in ResourceChoices}}

InitExtract ==
    /\ now = 0
    /\ environ = [w \in Workers |-> Env(0, None, None, "development")]
    /\ cached_credentials = [w \in Workers |-> EmptyCache]
    /\ nExchange = 0
    /\ stsExpiration = [n \in 1 .. MaxExchanges + 1 |-> 0]
    /\ lastCall = NoCall
    /\ lastOk = [q \in Pairs |-> NoRecord]
    /\ \E doc \in ExtractDocs :
          fs = [p \in ProjectIds |-> IF p = SpecProject
                                     THEN Workspace(FileJson(doc))
                                     ELSE NoWorkspace]
    /\ req = [w \in Workers |-> IdleReq]
    /\ faultBudget = MaxFaults
    /\ life = [p \in ProjectIds |-> "none"]

NextExtract ==
    \/ StartDestroy(1, SpecProject, Missing)
    \/ D_Exists(1)
    \/ D_Creds(1)
    \/ D_State(1)
    \/ D_Clients(1)
    \/ D_Read(1)

SpecExtract == InitExtract /\ [][NextExtract]_vars

\* The instances of a document as (type, attributes) pairs, in document
\* order.
RECURSIVE TypedInstances(_)
TypedInstances(list) ==
    IF Len(list) = 0
    THEN << >>
    ELSE LET res == Head(list)
             instances == IF "instances" \in DOMAIN res
                          THEN res.instances ELSE << >>
         IN  [k \in 1 .. Len(instances) |->
                 [type |-> res.type, attributes |-> instances[k]]]
             \o TypedInstances(Tail(list))

Identified(ti) ==
    /\ IdAttr(ti.type) \in DOMAIN ti.attributes
    /\ ti.attributes[IdAttr(ti.type)] # ""

\* The identifiers that a collection must hold: those of the identified
\* instances of the given types, in document order.
Expected(doc, types) ==
    LET sel == SelectSeq(TypedInstances(doc.resources),
                         LAMBDA ti : ti.type \in types /\ Identified(ti))
    IN  [k \in 1 .. Len(sel) |-> sel[k].attributes[IdAttr(sel[k].type)]]

ExpectedTags(doc) ==
    LET sel == SelectSeq(TypedInstances(doc.resources),
                         LAMBDA ti : ti.type \in {"aws_api_gateway_rest_api",
                                                  "aws_apigatewayv2_api"}
                                     /\ Identified(ti))
    IN  [k \in 1 .. Len(sel) |->
            IF sel[k].type = "aws_api_gateway_rest_api" THEN "v1" ELSE "v2"]

NamesOf(collection) == [k \in 1 .. Len(collection) |-> collection[k].name]

ReadDoc == R.start.state.data

ReadList ==
    /\ PastRead(R)
    /\ R.start.state.kind = "json"
    /\ ReadDoc.shape = "list"

\* C21: for every state document whose 'resources' is a list, the inventory
\* extracted holds exactly one record per instance of a recognised type whose
\* identifying attribute is present and non-empty, in the collection of its
\* type and in document order, gateways tagged v1 or v2 by their type;
\* nothing else is in any collection.
C21_OneRecordPerIdentifiedInstance ==
    ReadList =>
        /\ NamesOf(R.resources.s3_buckets)
              = Expected(ReadDoc, {"aws_s3_bucket"})
        /\ NamesOf(R.resources.lambda_functions)
              = Expected(ReadDoc, {"aws_lambda_function"})
        /\ [k \in 1 .. Len(R.resources.api_gateways) |->
               R.resources.api_gateways[k].id]
              = Expected(ReadDoc, {"aws_api_gateway_rest_api",
                                   "aws_apigatewayv2_api"})
        /\ [k \in 1 .. Len(R.resources.api_gateways) |->
               R.resources.api_gateways[k].type] = ExpectedTags(ReadDoc)
        /\ NamesOf(R.resources.dynamodb_tables)
              = Expected(ReadDoc, {"aws_dynamodb_table"})
        /\ NamesOf(R.resources.iam_roles)
              = Expected(ReadDoc, {"aws_iam_role"})

\* Two buckets of one resource extracted in document order, next to a
\* resource of an unrecognised type that has an identified instance.
C21_Witness ==
    /\ ReadList
    /\ NamesOf(R.resources.s3_buckets) = <<"y", "x">>
    /\ \E k \in 1 .. Len(ReadDoc.resources) :
          /\ ReadDoc.resources[k].type = "aws_sqs_queue"
          /\ "instances" \in DOMAIN ReadDoc.resources[k]
          /\ Len(ReadDoc.resources[k].instances) > 0
    /\ R.resources.lambda_functions = << >>
    /\ R.resources.iam_roles = << >>

\* C22: extraction does not raise: a request that read a parseable state
\* file whose 'resources' field is absent or malformed goes on with an empty
\* inventory, without a 'Pre-cleanup error' entry.
C22_ExtractionNeverRaises ==
    (PastRead(R) /\ R.start.state.kind = "json") =>
        ~HasEntry(R.cleanup_logs, <<"Pre-cleanup error: ">>)

(***************************************************************************)
(* get_terraform_state and get_terraform_outputs, and the handlers state   *)
(* and outputs of main.py.  A state document may have an 'outputs' field:  *)
(* [kind, items], kind "dict" for a mapping of output names to output      *)
(* records and "null" for null.                                            *)
(***************************************************************************)
DocOutputs ==
    DocBucket @@ ("outputs" :>
        [kind |-> "dict",
         items |-> [url |-> [value |-> "u", type |-> "string"],
                    key |-> [type |-> "string"]]])
DocOutputsNull ==
    DocBucket @@ ("outputs" :> [kind |-> "null", items |-> << >>])

ReadResult(status, data, error) ==
    [Result(status, << >>, << >>, << >>) EXCEPT !.data = data,
                                                 !.error = error]

ReadFailed_Raises(e) == Crash(e)

\* except Exception as e: return {"status": "error", ..., "error": str(e)}
ReadFailed(e) == ReadResult("error", << >>, e)

get_terraform_state(dir) ==
    IF ~dir.exists
    THEN ReadResult("success", << >>, "")
    ELSE IF NoStateFound(dir)
    THEN ReadResult("success", << >>, "")
    ELSE IF dir.state.kind # "json"
    THEN ReadFailed("JSONDecodeError")
    ELSE ReadResult("success", dir.state.data, "")

\* outputs[key] = output_data['value'] for the outputs that have a value
OutputValues(items) ==
    [k \in {j \in DOMAIN items : "value" \in DOMAIN items[j]} |->
        items[k].value]

get_terraform_outputs(dir) ==
    IF ~dir.exists
    THEN ReadResult("success", << >>, "")
    ELSE IF NoStateFound(dir)
    THEN ReadResult("success", << >>, "")
    ELSE IF dir.state.kind # "json"
    THEN ReadFailed("JSONDecodeError")
    ELSE IF "outputs" \notin DOMAIN dir.state.data
    THEN ReadResult("success", << >>, "")
    ELSE IF dir.state.data.outputs.kind = "null"
    THEN ReadFailed("AttributeError")
    ELSE ReadResult("success", OutputValues(dir.state.data.outputs.items), "")

\* main.py state: result = get_terraform_state(project_id); return result
GetState(w, project_id) ==
    /\ req[w].pc = "idle"
    /\ SetReq(w, [IdleReq EXCEPT !.pc = "done", !.op = "state",
                                 !.project_id = project_id,
                                 !.start = fs[project_id],
                                 !.response =
                                     get_terraform_state(fs[project_id])])
    /\ UNCHANGED <<now, credState, reqHistory, fs>>

\* main.py outputs: result = get_terraform_outputs(project_id); return result
GetOutputs(w, project_id) ==
    /\ req[w].pc = "idle"
    /\ SetReq(w, [IdleReq EXCEPT !.pc = "done", !.op = "outputs",
                                 !.project_id = project_id,
                                 !.start = fs[project_id],
                                 !.response =
                                     get_terraform_outputs(fs[project_id])])
    /\ UNCHANGED <<now, credState, reqHistory, fs>>

\* SpecRead: one server process handling destroy, state and outputs
\* requests one after the other.
ReadDirs ==
    SpecDirs \cup {Workspace(FileJson(DocOutputs)),
                   Workspace(FileJson(DocOutputsNull))}

InitRead ==
    /\ now = 0
    /\ \E e \in SpecEnvs : environ = [w \in Workers |-> e]
    /\ cached_credentials = [w \in Workers |-> EmptyCache]
    /\ nExchange = 0
    /\ stsExpiration = [n \in 1 .. MaxExchanges + 1 |-> 0]
    /\ lastCall = NoCall
    /\ lastOk = [q \in Pairs |-> NoRecord]
    /\ \E d \in ReadDirs :
          fs = [p \in ProjectIds |-> IF p = SpecProject THEN d ELSE NoWorkspace]
    /\ req = [w \in Workers |-> IdleReq]
    /\ faultBudget = MaxFaults
    /\ life = [p \in ProjectIds |-> "none"]

NextRead ==
    \/ \E u \in SpecUsers : StartDestroy(1, SpecProject, u)
    \/ DestroyStep(1)
    \/ GetState(1, SpecProject)
    \/ GetOutputs(1, SpecProject)
    \/ Returned(1)

SpecRead == InitRead /\ [][NextRead]_vars

ReadDone == R.pc = "done" /\ R.op \in {"state", "outputs"}

\* C23: a state or outputs request answers status success with an empty
\* mapping when the workspace is absent, the state file is absent or the
\* state file has length zero, and answers a status error result (not a
\* raised exception) when the state file is non-empty and cannot be parsed;
\* the workspace and its state file are as they were before the request.
C23_ReadOperations ==
    ReadDone =>
        /\ (~R.start.exists \/ R.start.state.kind \in {"absent", "empty"}) =>
              /\ R.response.kind = "result"
              /\ R.response.status = "success"
              /\ R.response.data = << >>
        /\ (R.start.exists /\ R.start.state.kind = "malformed") =>
              /\ R.response.kind = "result"
              /\ R.response.status = "error"
        /\ fs[R.project_id] = R.start

\* An outputs request answered error for a state file that cannot be
\* parsed, after a destroy request had been served.
C23_Witness ==
    /\ ReadDone
    /\ R.op = "outputs"
    /\ R.start.exists
    /\ R.start.state.kind = "malformed"
    /\ R.response.status = "error"
    /\ nExchange > 0

(***************************************************************************)
(* SpecDeploy: one server process handling deploy requests one after the   *)
(* other.                                                                  *)
(***************************************************************************)
NextDeploy ==
    \/ \E u \in SpecUsers : StartDeploy(1, SpecProject, u)
    \/ DeployStep(1)
    \/ Returned(1)

SpecDeploy == Init /\ [][NextDeploy]_vars

DeployDone == R.pc = "done" /\ R.op = "deploy"
ExitedZero(o) == o.kind = "exit" /\ o.rc = 0
InitRan == Count(R.trace, "init") > 0
ApplyRan == Count(R.trace, "apply") > 0

\* C24: in deploy, apply runs only after the credentials were resolved and
\* init exited 0; a credential failure answers an error result with neither
\* init nor apply run, a non-zero init exit answers an error result with
\* apply not run, and a request whose apply ran answers status success
\* exactly when apply exited 0.
C24_ApplyAfterCredentialsAndInit ==
    R.op = "deploy" =>
        /\ InitRan => R.resolved
        /\ ApplyRan =>
              /\ R.resolved
              /\ R.trace[1] = "init"
              /\ ExitedZero(R.engine[1])
        /\ (DeployDone /\ ~R.resolved) =>
              /\ R.trace = << >>
              /\ R.response.kind = "result"
              /\ R.response.status = "error"
        /\ (DeployDone /\ InitRan /\ R.engine[1].kind = "exit"
               /\ R.engine[1].rc # 0) =>
              /\ R.trace = <<"init">>
              /\ R.response.kind = "result"
              /\ R.response.status = "error"
        /\ (DeployDone /\ ApplyRan) =>
              /\ R.trace = <<"init", "apply">>
              /\ R.response.status = "success" <=> ExitedZero(R.engine[2])

\* A deploy answered error after init exited non-zero, following a deploy
\* that had succeeded.
C24_Witness ==
    /\ DeployDone
    /\ R.trace = <<"init">>
    /\ R.engine[1].kind = "exit"
    /\ R.engine[1].rc # 0
    /\ R.response.status = "error"
    /\ life[SpecProject] = "deployed"

(***************************************************************************)
(* SpecThreads: two threads of one process calling                         *)
(* get_credentials_for_user on the module-level aws_credential_manager,    *)
(* one step per access to the shared dictionary, the clock or STS.  The    *)
(* threads are the elements of Workers; the dictionary and the environment *)
(* are those of process 1.                                                 *)
(***************************************************************************)
Shared == cached_credentials[1]
SetShared(cache) ==
    cached_credentials' = [cached_credentials EXCEPT ![1] = cache]

ThreadPairs == {<<<<"a">>, <<"c">>>>, <<<<"a">>, <<"b", "-", "c">>>>}

Raised(e) == Crash(e)
ReturnedCredentials(credentials) ==
    [Result("success", << >>, << >>, << >>) EXCEPT !.data = credentials]

threadFrame == <<environ, lastCall, lastOk, fs, faultBudget, life>>

StartResolve(w, user_id, project_id) ==
    /\ req[w].pc = "idle"
    /\ SetReq(w, [IdleReq EXCEPT !.pc = "t_contains", !.op = "resolve",
                                 !.user_id = user_id,
                                 !.project_id = project_id])
    /\ UNCHANGED <<now, cached_credentials, nExchange, stsExpiration,
                   threadFrame>>

\* if cache_key in self.cached_credentials:
T_Contains(w) ==
    LET r == req[w] IN
    /\ r.pc = "t_contains"
    /\ SetReq(w, [r EXCEPT !.pc =
          IF CacheKey(r.user_id, r.project_id) \in DOMAIN Shared
          THEN "t_read" ELSE "t_sts"])
    /\ UNCHANGED <<now, cached_credentials, nExchange, stsExpiration,
                   threadFrame>>

\* cached = self.cached_credentials[cache_key]
T_Read(w) ==
    LET r == req[w]
        cache_key == CacheKey(r.user_id, r.project_id)
    IN
    /\ r.pc = "t_read"
    /\ IF cache_key \in DOMAIN Shared
       THEN SetReq(w, [r EXCEPT !.pc = "t_fresh",
                                !.cached = Shared[cache_key]])
       ELSE SetReq(w, [r EXCEPT !.pc = "done",
                                !.response = Raised("KeyError")])
    /\ UNCHANGED <<now, cached_credentials, nExchange, stsExpiration,
                   threadFrame>>

\* if cached['expiration'] > time.time(): return cached['credentials']
T_Fresh(w) ==
    LET r == req[w] IN
    /\ r.pc = "t_fresh"
    /\ IF CacheFresh(r.cached, now)
       THEN SetReq(w, [r EXCEPT !.pc = "done", !.response =
                ReturnedCredentials(r.cached.credentials)])
       ELSE SetReq(w, [r EXCEPT !.pc = "t_del"])
    /\ UNCHANGED <<now, cached_credentials, nExchange, stsExpiration,
                   threadFrame>>

\* del self.cached_credentials[cache_key]
T_Del(w) ==
    LET r == req[w]
        cache_key == CacheKey(r.user_id, r.project_id)
    IN
    /\ r.pc = "t_del"
    /\ IF cache_key \in DOMAIN Shared
       THEN /\ SetShared(CacheDel(Shared, cache_key))
            /\ SetReq(w, [r EXCEPT !.pc = "t_sts"])
       ELSE /\ UNCHANGED cached_credentials
            /\ SetReq(w, [r EXCEPT !.pc = "done",
                                   !.response = Raised("KeyError")])
    /\ UNCHANGED <<now, nExchange, stsExpiration, threadFrame>>

\* The environment checks and sts_client.assume_role(...), up to the entry
\* built from the response.
T_Sts(w) ==
    LET r == req[w] IN
    /\ r.pc = "t_sts"
    /\ \E sts \in StsOutcomes :
          IF has_role_config(environ[1]) /\ sts = "ok"
          THEN /\ nExchange < MaxExchanges
               /\ nExchange' = nExchange + 1
               /\ stsExpiration' = [stsExpiration EXCEPT
                      ![nExchange + 1] = now + DurationSeconds]
               /\ SetReq(w, [r EXCEPT !.pc = "t_put", !.entry =
                      [credentials |-> IssuedCredentials(nExchange + 1),
                       expiration |->
                           ExpirationTime(now + DurationSeconds)]])
          ELSE /\ UNCHANGED <<nExchange, stsExpiration>>
               /\ SetReq(w, [r EXCEPT !.pc = "done", !.response =
                      Raised("AWS role assumption failed")])
    /\ UNCHANGED <<now, cached_credentials, threadFrame>>

\* self.cached_credentials[cache_key] = {...}; return credentials
T_Put(w) ==
    LET r == req[w] IN
    /\ r.pc = "t_put"
    /\ SetShared(CachePut(Shared, CacheKey(r.user_id, r.project_id), r.entry))
    /\ SetReq(w, [r EXCEPT !.pc = "done", !.response =
          ReturnedCredentials(r.entry.credentials)])
    /\ UNCHANGED <<now, nExchange, stsExpiration, threadFrame>>

ThreadStep(w) ==
    \/ T_Contains(w) \/ T_Read(w) \/ T_Fresh(w) \/ T_Del(w)
    \/ T_Sts(w) \/ T_Put(w)

InitThreads ==
    /\ now = 0
    /\ environ = [w \in Workers |-> Env(None, None, 0, "production")]
    /\ cached_credentials = [w \in Workers |-> EmptyCache]
    /\ nExchange = 0
    /\ stsExpiration = [n \in 1 .. MaxExchanges + 1 |-> 0]
    /\ lastCall = NoCall
    /\ lastOk = [q \in Pairs |-> NoRecord]
    /\ fs = [p \in ProjectIds |-> NoWorkspace]
    /\ req = [w \in Workers |-> IdleReq]
    /\ faultBudget = MaxFaults
    /\ life = [p \in ProjectIds |-> "none"]

NextThreads ==
    \/ Tick
    \/ \E w \in Workers, q \in ThreadPairs : StartResolve(w, q[1], q[2])
    \/ \E w \in Workers : ThreadStep(w)
    \/ \E w \in Workers : Return(w) /\ UNCHANGED life

SpecThreads == InitThreads /\ [][NextThreads]_vars

\* C25: no resolve call fails because of the interleaving with another
\* call on the same (user, project) key: no call ends with the KeyError of
\* an entry that another call removed.
C25_NoCallFailsByInterleaving ==
    \A w \in Workers :
        (req[w].op = "resolve" /\ req[w].pc = "done") =>
            req[w].response.error # "KeyError"

(***************************************************************************)
(* C26, under SpecFair.                                                    *)
(***************************************************************************)
\* C26: the cleanup log a destroy request answers with holds every entry
\* the request appended to its cleanup log, in the order of appending.
C26_AppendedEntriesAreReturned ==
    (DestroyDone /\ R.response.kind = "result") =>
        R.response.cleanup_logs = R.cleanup_logs

(***************************************************************************)
(* The contents of a bucket and what the calls of cleanup_s3_buckets do    *)
(* to them.  A key has a stack of entries, oldest first: "v" an object     *)
(* version, "m" a delete marker; the key is a live object when its newest  *)
(* entry is a version.  Without versioning a key has at most one version.  *)
(* A listing returns one key per page, in key order, each page fetched     *)
(* after the deletions the loop made for the page before it.               *)
(***************************************************************************)
KeyOrder == <<"k1", "k2">>
ObjectKeys == {"k1", "k2"}
Stacks == {<< >>, <<"v">>, <<"v", "v">>, <<"v", "m">>, <<"m">>}

BucketContents ==
    {[versioning |-> FALSE, keys |-> f] :
        f \in [ObjectKeys -> {<< >>, <<"v">>}]}
    \cup {[versioning |-> TRUE, keys |-> f] : f \in [ObjectKeys -> Stacks]}

EmptyBucket == [versioning |-> FALSE, keys |-> [k \in ObjectKeys |-> << >>]]

IsLive(stack) == Len(stack) > 0 /\ stack[Len(stack)] = "v"

\* The keys list_objects_v2 returns, and those list_object_versions returns.
LiveKeys(c) == SelectSeq(KeyOrder, LAMBDA k : IsLive(c.keys[k]))
ListedKeys(c) == SelectSeq(KeyOrder, LAMBDA k : Len(c.keys[k]) > 0)

\* delete_objects(Delete={'Objects': [{'Key': k}]}): the object is removed,
\* or, with versioning, hidden by a new delete marker.
DeleteByKey(c, k) ==
    [c EXCEPT !.keys[k] = IF c.versioning THEN Append(@, "m") ELSE << >>]

DeleteMarkers_Kept(stack) == stack

\* delete_objects naming every version, then every delete marker, of a key.
DeleteVersions(stack) == SelectSeq(stack, LAMBDA e : e # "v")
DeleteMarkers(stack) == SelectSeq(stack, LAMBDA e : e # "m")

HasVersions(stack) == \E n \in 1 .. Len(stack) : stack[n] = "v"
HasMarkers(stack) == \E n \in 1 .. Len(stack) : stack[n] = "m"

\* for page in pages: delete_objects(the keys of the page)
RECURSIVE DeleteObjects(_, _, _)
DeleteObjects(bucket_name, c, keys) ==
    IF Len(keys) = 0
    THEN [contents |-> c, calls |-> << >>]
    ELSE LET rest == DeleteObjects(bucket_name, DeleteByKey(c, Head(keys)),
                                   Tail(keys))
         IN  [contents |-> rest.contents,
              calls |-> << Call("s3", "list_objects_v2", bucket_name, "none"),
                           Call("s3", "delete_objects", bucket_name, "key") >>
                        \o rest.calls]

\* for page in pages: delete_objects(versions); delete_objects(markers)
RECURSIVE DeleteAllVersions(_, _, _)
DeleteAllVersions(bucket_name, c, keys) ==
    IF Len(keys) = 0
    THEN [contents |-> c, calls |-> << >>]
    ELSE LET k == Head(keys)
             rest == DeleteAllVersions(bucket_name,
                        [c EXCEPT !.keys[k] =
                            DeleteMarkers(DeleteVersions(@))],
                        Tail(keys))
         IN  [contents |-> rest.contents,
              calls |->
                 << Call("s3", "list_object_versions", bucket_name, "none") >>
                 \o (IF HasVersions(c.keys[k])
                     THEN << Call("s3", "delete_objects", bucket_name,
                                  "version") >>
                     ELSE << >>)
                 \o (IF HasMarkers(c.keys[k])
                     THEN << Call("s3", "delete_objects", bucket_name,
                                  "marker") >>
                     ELSE << >>)
                 \o rest.calls]

\* The try block that removes all objects: fail is "none", "list" (the first
\* listing raises) or "delete" (the first delete_objects raises).
RemoveObjects(bucket_name, c, fail) ==
    LET list == << Call("s3", "list_objects_v2", bucket_name, "none") >>
        run == DeleteObjects(bucket_name, c, LiveKeys(c))
    IN  IF fail = "list"
        THEN [outcome |-> "error", contents |-> c, calls |-> list]
        ELSE IF Len(LiveKeys(c)) = 0
        THEN [outcome |-> "none", contents |-> c, calls |-> list]
        ELSE IF fail = "delete"
        THEN [outcome |-> "error", contents |-> c,
              calls |-> list \o << Call("s3", "delete_objects", bucket_name,
                                        "key") >>]
        ELSE [outcome |-> "deleted", contents |-> run.contents,
              calls |-> run.calls]

\* The try block that removes all versions and delete markers.
RemoveVersions(bucket_name, c, fail) ==
    LET list == << Call("s3", "list_object_versions", bucket_name, "none") >>
        run == DeleteAllVersions(bucket_name, c, ListedKeys(c))
    IN  IF fail = "list"
        THEN [outcome |-> "error", contents |-> c, calls |-> list]
        ELSE IF Len(ListedKeys(c)) = 0
        THEN [outcome |-> "none", contents |-> c, calls |-> list]
        ELSE IF fail = "delete"
        THEN [outcome |-> "error", contents |-> c,
              calls |-> list \o << Call("s3", "delete_objects", bucket_name,
                    IF HasVersions(c.keys[Head(ListedKeys(c))])
                    THEN "version" ELSE "marker") >>]
        ELSE [outcome |-> "deleted", contents |-> run.contents,
              calls |-> run.calls]

\* cleanup_s3_buckets, one bucket with the contents c.
CleanBucket(bucket_name, c, head, failObjects, failVersions) ==
    LET first == << Call("s3", "head_bucket", bucket_name, "none") >>
        objs == RemoveObjects(bucket_name, c, failObjects)
        vers == RemoveVersions(bucket_name, objs.contents, failVersions)
    IN  IF head # "ok"
        THEN [name |-> bucket_name, head |-> head, objs |-> "none",
              vers |-> "none", before |-> c, mid |-> c, after |-> c,
              calls |-> first]
        ELSE [name |-> bucket_name, head |-> head, objs |-> objs.outcome,
              vers |-> vers.outcome, before |-> c, mid |-> objs.contents,
              after |-> vers.contents,
              calls |-> first \o objs.calls \o vers.calls]

HeadOutcomes == {"ok", "NoSuchBucket", "error"}
PhaseFailures == {"none", "list", "delete"}

\* cleanup_s3_buckets(aws_clients['s3'], resources['s3_buckets']), on
\* buckets whose contents are modelled.
D_S3Contents(w) ==
    LET r == req[w] IN
    /\ r.pc = "d_s3"
    /\ \/ /\ r.i <= Len(r.resources.s3_buckets)
          /\ \E head \in HeadOutcomes, c \in BucketContents,
                failObjects \in PhaseFailures, failVersions \in PhaseFailures :
                LET run == CleanBucket(r.resources.s3_buckets[r.i].name, c,
                                       head, failObjects, failVersions)
                IN  /\ head # "ok" =>
                          /\ c = EmptyBucket
                          /\ failObjects = "none"
                          /\ failVersions = "none"
                    /\ StrategyStepOn(w,
                          [r EXCEPT !.buckets = Append(@, run)],
                          "s3", Len(r.resources.s3_buckets), head,
                          S3BucketLogs(run.name, run.head, run.objs, run.vers),
                          head # "ok" \/ run.objs = "error"
                                      \/ run.vers = "error",
                          run.calls)
       \/ /\ r.i > Len(r.resources.s3_buckets)
          /\ StrategyDone(w)
    /\ UNCHANGED <<now, credState, reqHistory, fs>>

(***************************************************************************)
(* SpecCleanup: a destroy request up to the end of the pre-cleanup, on a   *)
(* state document with two buckets and a gateway of each version.          *)
(***************************************************************************)
DocCleanup ==
    [shape |-> "list",
     resources |->
        << [type |-> "aws_s3_bucket",
            instances |-> << [bucket |-> "b1"], [bucket |-> "b2"] >>],
           [type |-> "aws_api_gateway_rest_api",
            instances |-> << [id |-> "g1", name |-> "api"] >>],
           [type |-> "aws_apigatewayv2_api",
            instances |-> << [id |-> "g2", name |-> "api"] >>] >>]

InitCleanup ==
    /\ now = 0
    /\ environ = [w \in Workers |-> Env(0, None, None, "development")]
    /\ cached_credentials = [w \in Workers |-> EmptyCache]
    /\ nExchange = 0
    /\ stsExpiration = [n \in 1 .. MaxExchanges + 1 |-> 0]
    /\ lastCall = NoCall
    /\ lastOk = [q \in Pairs |-> NoRecord]
    /\ fs = [p \in ProjectIds |-> IF p = SpecProject
                                  THEN Workspace(FileJson(DocCleanup))
                                  ELSE NoWorkspace]
    /\ req = [w \in Workers |-> IdleReq]
    /\ faultBudget = MaxFaults
    /\ life = [p \in ProjectIds |-> "none"]

NextCleanup ==
    \/ StartDestroy(1, SpecProject, Missing)
    \/ D_Exists(1)
    \/ D_Creds(1)
    \/ D_State(1)
    \/ D_Clients(1)
    \/ D_Read(1)
    \/ D_S3Contents(1)
    \/ D_Lambda(1)
    \/ D_ApiGw(1)

SpecCleanup == InitCleanup /\ [][NextCleanup]_vars

(***************************************************************************)
(* Claims about the strategies, under SpecCleanup.                         *)
(***************************************************************************)
GatewayCalls(r) ==
    SelectSeq(r.calls, LAMBDA c : c.client \in {"apigateway", "apigatewayv2"})
GatewayEntries(r) ==
    SelectSeq(AllLogs(r), LAMBDA e : e[1] = "API Gateway ")
GatewaysChecked(r) == Count(r.trace, "apigw")
\* The outcome of the existence check of the k-th gateway.
CheckOf(r, k) == r.cloud[Count(r.trace, "s3") + Count(r.trace, "lambda") + k]

\* C27: for every gateway visited the API-gateway strategy has made exactly
\* one call, the existence check on the client of the gateway's version tag
\* (no delete call), and has appended exactly one entry: 'Ready for
\* deletion', 'Already deleted' when the check reported not-found, or the
\* check warning.
C27_GatewayStrategyReadOnly ==
    R.op = "destroy" =>
        LET gw == R.resources.api_gateways
            n == GatewaysChecked(R)
        IN  /\ n <= Len(gw)
            /\ Len(GatewayCalls(R)) = n
            /\ Len(GatewayEntries(R)) = n
            /\ \A k \in 1 .. n :
                  /\ GatewayCalls(R)[k] =
                        IF gw[k].type = "v1"
                        THEN Call("apigateway", "get_rest_api", gw[k].id,
                                  "none")
                        ELSE Call("apigatewayv2", "get_api", gw[k].id, "none")
                  /\ GatewayEntries(R)[k] =
                        IF CheckOf(R, k) = "ok"
                        THEN <<"API Gateway ", gw[k].type, " ", gw[k].id,
                               ": Ready for deletion">>
                        ELSE IF CheckOf(R, k) = "NotFound"
                        THEN <<"API Gateway ", gw[k].type, " ", gw[k].id,
                               ": Already deleted">>
                        ELSE <<"API Gateway ", gw[k].id, ": Check warning - ">>

\* Both gateways visited: the v1 gateway exists, the v2 gateway was not
\* found.
C27_Witness ==
    /\ R.op = "destroy"
    /\ R.pc = "d_destroy1"
    /\ GatewaysChecked(R) = 2
    /\ R.resources.api_gateways[2].type = "v2"
    /\ CheckOf(R, 1) = "ok"
    /\ CheckOf(R, 2) = "NotFound"

EmptyContents(c) == \A k \in ObjectKeys : c.keys[k] = << >>
DeletesBy(calls, kinds) ==
    {n \in 1 .. Len(calls) :
        calls[n].op = "delete_objects" /\ calls[n].by \in kinds}

\* C28: a bucket the existence check found absent gets no call but the
\* check; a bucket that exists and whose calls all succeeded holds no
\* object, no version and no delete marker when the strategy is done with it,
\* no live object was left when the first version or marker was deleted, and
\* every deletion by key came before every deletion of a version or marker.
C28_BucketEmptied ==
    R.op = "destroy" =>
        \A n \in 1 .. Len(R.buckets) :
            LET b == R.buckets[n] IN
            /\ b.head = "NoSuchBucket" =>
                  b.calls = << Call("s3", "head_bucket", b.name, "none") >>
            /\ (b.head = "ok" /\ b.objs # "error" /\ b.vers # "error") =>
                  /\ EmptyContents(b.after)
                  /\ LiveKeys(b.mid) = << >>
                  /\ \A i \in DeletesBy(b.calls, {"key"}),
                        j \in DeletesBy(b.calls, {"version", "marker"}) :
                        i < j

\* The first bucket was absent; the second, versioned, held a live object
\* with two versions and an object hidden by a delete marker, and is empty.
C28_Witness ==
    /\ R.op = "destroy"
    /\ Len(R.buckets) = 2
    /\ R.buckets[1].head = "NoSuchBucket"
    /\ R.buckets[2].head = "ok"
    /\ R.buckets[2].objs = "deleted"
    /\ R.buckets[2].vers = "deleted"
    /\ R.buckets[2].before.versioning
    /\ R.buckets[2].before.keys["k1"] = <<"v", "v">>
    /\ R.buckets[2].before.keys["k2"] = <<"v", "m">>
    /\ EmptyContents(R.buckets[2].after)

\* C29: no bucket has both a 'Successfully cleaned' entry and an 'Error
\* deleting objects' or 'Error deleting versions' entry in the log.
C29_CleanedOnlyWithoutErrors ==
    R.op = "destroy" =>
        \A n \in 1 .. Len(R.buckets) :
            LET name == R.buckets[n].name IN
            HasEntry(AllLogs(R), <<"Bucket ", name, ": Successfully cleaned">>)
                => /\ ~HasEntry(AllLogs(R),
                          <<"Bucket ", name, ": Error deleting objects - ">>)
                   /\ ~HasEntry(AllLogs(R),
                          <<"Bucket ", name, ": Error deleting versions - ">>)

(***************************************************************************)
(* C30, under SpecCred.                                                    *)
(***************************************************************************)
\* C30: a resolve call for a pair of given identifiers that no earlier call
\* obtained a credential set for is not answered from the cache: it never
\* reads the entry written for a different pair.
C30_HitIsForOwnPair ==
    [][\A q \in Pairs :
          (/\ Truthy(q[1]) /\ Truthy(q[2])
           /\ lastOk[q] = NoRecord
           /\ Resolve(1, q[1], q[2])) => ~lastCall'.hit]_vars

(***************************************************************************)
(* C31, under SpecFair.                                                    *)
(***************************************************************************)
CredentialWarning(r) ==
    \E k \in 1 .. Len(r.cleanup_logs) :
        r.cleanup_logs[k][1] = "Warning: Could not get AWS credentials - "
\* The process environment holds a credential set issued by an exchange.
IssuedInEnvironment == environ[1].AWS_ACCESS_KEY_ID >= 1

\* C31: a destroy request whose credential resolution failed does not run
\* the engine with a delegated credential set that an earlier request left
\* in the process environment.
C31_NoStaleCredentials ==
    (R.op = "destroy" /\ Count(R.trace, "destroy") > 0
        /\ CredentialWarning(R)) => ~IssuedInEnvironment

====
